---- MODULE Spec2Model ----
(***************************************************************************)
(* State-machine model of the CogniCare backend (Express handlers over a   *)
(* Prisma store).  Tables are functions from ids to rows, a handler is an  *)
(* operator from the request and the tables to a response and the new      *)
(* tables, and every action performs one whole handler call.               *)
(*                                                                         *)
(* Conventions: an absent row is Null, a null / undefined id is NoId (0),  *)
(* an undefined or empty string is <<>>, an undefined number is 0.         *)
(* Times are minutes.                                                      *)
(***************************************************************************)
EXTENDS Integers, Sequences, FiniteSets, TLC

VARIABLES users, organizations, clinics, patients, appointments, ehrRecords,
          invites, backups, now, res, organizationAddOns, subscriptions, inflight

vars == <<users, organizations, clinics, patients, appointments, ehrRecords,
          invites, backups, now, res, organizationAddOns, subscriptions, inflight>>

(***************************************************************************)
(* Bounds of the model.                                                    *)
(***************************************************************************)
MaxUsers == 5
MaxOrgs == 2
MaxClinics == 3
MaxPatients == 2
MaxAppointments == 2
MaxEhr == 1
MaxInvites == 2
MaxBackups == 2

UserIds == 1..MaxUsers
OrgIds == 1..MaxOrgs
ClinicIds == 1..MaxClinics
PatientIds == 1..MaxPatients
AppointmentIds == 1..MaxAppointments
EhrIds == 1..MaxEhr
InviteIds == 1..MaxInvites

Null == [null |-> TRUE]
NoId == 0

\* Requests whose handler has started and not yet answered.
MaxRequests == 2
RequestIds == 1..MaxRequests
NoRequests == [r \in RequestIds |-> Null]

\* The rows of the AddOn table, by name, and an OrganizationAddOn table
\* without rows; a row is keyed by (organizationId, addOnId).
AddOnNames == {"AI Scribe", "Analytics"}
NoAddOns == [o \in OrgIds |-> [a \in AddOnNames |-> Null]]

Roles == {"ADMIN", "DOCTOR", "STAFF"}

\* The smallest id of a table that holds no row yet (0 when the table is full).
FreeId(table) ==
    IF \E i \in DOMAIN table : table[i] = Null
    THEN CHOOSE i \in DOMAIN table :
            table[i] = Null /\ \A j \in DOMAIN table : table[j] = Null => i <= j
    ELSE NoId

\* What a handler returns when it changes no table.
Reply(status, error, body) == [status |-> status, error |-> error, body |-> body]

(***************************************************************************)
(* The request's user, as a handler reads it: const userId =               *)
(* req.user.userId.  A req.user without that field yields undefined.       *)
(***************************************************************************)
ReqUserId(reqUser) ==
    IF "userId" \in DOMAIN reqUser THEN reqUser.userId ELSE NoId

\* prisma.user.findUnique({ where: { id } }): throws on an undefined id.
FindUserThrows(userId) == userId = NoId

\* The prologue shared by the handlers: load the caller, then read
\* user.organization (a TypeError, caught by the handler, when no row).
PrologueThrows(userId) ==
    FindUserThrows(userId) \/ userId \notin DOMAIN users \/ users[userId] = Null

\* user.organization of the include: the caller's organization id or NoId.
UserOrganization(userId) ==
    IF users[userId].organizationId \in organizations
    THEN users[userId].organizationId ELSE NoId

(***************************************************************************)
(* Ownership chain: clinic -> organization, patient -> clinic.             *)
(***************************************************************************)
ClinicOrg(c) ==
    IF c \in DOMAIN clinics /\ clinics[c] # Null THEN clinics[c].organizationId ELSE NoId

PatientOrg(p) ==
    IF p \in DOMAIN patients /\ patients[p] # Null THEN ClinicOrg(patients[p].clinicId) ELSE NoId

(***************************************************************************)
(* Phone numbers are digit strings; phoneRegex = /^[6-9]\d{9}$/.           *)
(***************************************************************************)
PhoneA == <<9, 8, 7, 6, 5, 4, 3, 2, 1, 0>>
PhoneB == <<6, 0, 0, 0, 0, 0, 0, 0, 0, 1>>
PhoneBadLead == <<5, 8, 7, 6, 5, 4, 3, 2, 1, 0>>
PhoneShort == <<9, 8, 7>>
NoPhone == <<>>

phoneRegexTest(phone) ==
    /\ Len(phone) = 10
    /\ phone[1] \in 6..9
    /\ \A i \in 1..Len(phone) : phone[i] \in 0..9

(***************************************************************************)
(* What a handler answers: the response and the table it writes.           *)
(***************************************************************************)
Out(status, error, body, table) ==
    [status |-> status, error |-> error, body |-> body, table |-> table]

(***************************************************************************)
(* patients.controller                                                     *)
(***************************************************************************)
\* A duplicate lookup that matches the patient's clinicId against the
\* organization id instead of walking clinic -> organization.
PatientsWithPhone_ByClinicId(phone, org) ==
    {p \in PatientIds : patients[p] # Null /\ patients[p].phone = phone
                          /\ patients[p].clinicId = org}

\* prisma.patient.findFirst({ where: { phone, clinic: { organizationId } } })
PatientsWithPhone(phone, org) ==
    {p \in PatientIds : patients[p] # Null /\ patients[p].phone = phone /\ PatientOrg(p) = org}

\* A lookup by id alone, without the organization of the clinic.
PatientInOrg_AnyOrg(id, org) ==
    id \in PatientIds /\ patients[id] # Null

\* prisma.patient.findFirst({ where: { id, clinic: { organizationId } } })
PatientInOrg(id, org) ==
    id \in PatientIds /\ patients[id] # Null /\ PatientOrg(id) = org

\* prisma.clinic.findFirst({ where: { id, organizationId } })
ClinicInOrg(id, org) ==
    id \in ClinicIds /\ clinics[id] # Null /\ clinics[id].organizationId = org

\* POST /api/patients
createPatient(req) ==
    LET userId == ReqUserId(req.user)
        phone == req.body.phone
        clinicId == req.body.clinicId
        org == UserOrganization(userId)
        newId == FreeId(patients)
    IN  IF PrologueThrows(userId)
        THEN Out(500, "Failed to create patient", Null, patients)
        ELSE IF org = NoId
        THEN Out(404, "Organization not found", Null, patients)
        ELSE IF ~phoneRegexTest(phone)
        THEN Out(400, "Invalid phone number format", Null, patients)
        ELSE IF PatientsWithPhone(phone, org) # {}
        THEN Out(400, "Patient with this phone number already exists", Null, patients)
        ELSE IF ~ClinicInOrg(clinicId, org)
        THEN Out(400, "Invalid clinic selected", Null, patients)
        ELSE Out(201, "", [id |-> newId, phone |-> phone, clinicId |-> clinicId],
                 [patients EXCEPT ![newId] = [phone |-> phone, clinicId |-> clinicId]])

\* The duplicate lookup of updatePatient:
\* findFirst({ where: { phone, id: { not: id }, clinic: { organizationId } } })
DuplicatePatients(phone, id, org) == PatientsWithPhone(phone, org) \ {id}

\* PUT /api/patients/:id
updatePatient(req) ==
    LET userId == ReqUserId(req.user)
        id == req.params.id
        phone == req.body.phone
        clinicId == req.body.clinicId
        org == UserOrganization(userId)
        old == patients[id]
        \* prisma update: an undefined field is left as it is
        row == [phone |-> IF phone = NoPhone THEN old.phone ELSE phone,
                clinicId |-> IF clinicId = NoId THEN old.clinicId ELSE clinicId]
    IN  IF PrologueThrows(userId)
        THEN Out(404, "Patient not found", Null, patients)
        ELSE IF org = NoId
        THEN Out(404, "Organization not found", Null, patients)
        ELSE IF ~PatientInOrg(id, org)
        THEN Out(404, "Patient not found", Null, patients)
        ELSE IF phone # NoPhone /\ phone # old.phone /\ ~phoneRegexTest(phone)
        THEN Out(400, "Invalid phone number format", Null, patients)
        ELSE IF phone # NoPhone /\ phone # old.phone /\ DuplicatePatients(phone, id, org) # {}
        THEN Out(400, "Another patient with this phone number already exists", Null, patients)
        ELSE IF clinicId # NoId /\ (clinicId \notin ClinicIds \/ clinics[clinicId] = Null)
        THEN Out(404, "Patient not found", Null, patients)  \* foreign key failure, caught
        ELSE Out(200, "", [id |-> id, phone |-> row.phone, clinicId |-> row.clinicId],
                 [patients EXCEPT ![id] = row])

\* GET /api/patients/:id
getPatientById(req) ==
    LET userId == ReqUserId(req.user)
        id == req.params.id
        org == UserOrganization(userId)
    IN  IF PrologueThrows(userId)
        THEN Reply(404, "Patient not found", Null)
        ELSE IF org = NoId
        THEN Reply(404, "Organization not found", Null)
        ELSE IF ~PatientInOrg(id, org)
        THEN Reply(404, "Patient not found", Null)
        ELSE Reply(200, "", [id |-> id, phone |-> patients[id].phone,
                             clinicId |-> patients[id].clinicId])

(***************************************************************************)
(* clinics.controller                                                      *)
(***************************************************************************)
\* GET /api/clinics/:id
getClinicById(req) ==
    LET userId == ReqUserId(req.user)
        id == req.params.id
        org == UserOrganization(userId)
    IN  IF PrologueThrows(userId)
        THEN Reply(404, "Clinic not found", Null)
        ELSE IF org = NoId
        THEN Reply(404, "Organization not found", Null)
        ELSE IF ~ClinicInOrg(id, org)
        THEN Reply(404, "Clinic not found", Null)
        ELSE Reply(200, "", [id |-> id, organizationId |-> clinics[id].organizationId])

(***************************************************************************)
(* appointments.controller                                                 *)
(***************************************************************************)
NoDate == NoId
NoDuration == NoId
NoStatus == ""

\* duration || 30
DefaultDuration == 30
\* endDate.setDate(endDate.getDate() + 1), in minutes
DayMinutes == 24 * 60

Statuses == {"SCHEDULED", "CONFIRMED", "IN_PROGRESS", "COMPLETED", "CANCELLED", "NO_SHOW"}

AppointmentOrg(a) ==
    IF a \in DOMAIN appointments /\ appointments[a] # Null
    THEN ClinicOrg(appointments[a].clinicId) ELSE NoId

\* The where clause built by getAppointments.
getAppointmentsWhere(userId, org, query) ==
    LET roleDoctorId == IF users[userId].role = "DOCTOR" THEN userId ELSE NoId
        \* if (doctor) whereConditions.doctorId = doctor  (overwrites the role filter)
        doctorId == IF query.doctor # NoId THEN query.doctor ELSE roleDoctorId
    IN  [organizationId |-> org, doctorId |-> doctorId, date |-> query.date,
         clinicId |-> query.clinic, status |-> query.status]

\* prisma.appointment.findMany({ where }), as the set of the ids found
\* (the orderBy of the result is not modelled).
FindAppointments(where) ==
    {a \in AppointmentIds :
        /\ appointments[a] # Null
        /\ AppointmentOrg(a) = where.organizationId
        /\ (where.doctorId # NoId => appointments[a].doctorId = where.doctorId)
        /\ (where.date # NoDate =>
               /\ appointments[a].appointmentDate >= where.date
               /\ appointments[a].appointmentDate < where.date + DayMinutes)
        /\ (where.clinicId # NoId => appointments[a].clinicId = where.clinicId)
        /\ (where.status # NoStatus => appointments[a].status = where.status)}

\* GET /api/appointments
getAppointments(req) ==
    LET userId == ReqUserId(req.user)
        org == UserOrganization(userId)
    IN  IF PrologueThrows(userId)
        THEN Reply(500, "Failed to fetch appointments", Null)
        ELSE IF org = NoId
        THEN Reply(404, "Organization not found", Null)
        ELSE Reply(200, "", FindAppointments(getAppointmentsWhere(userId, org, req.query)))

\* prisma.user.findFirst({ where: { id, organizationId, role: 'DOCTOR' } })
DoctorInOrg(id, org) ==
    /\ id \in UserIds /\ users[id] # Null
    /\ users[id].organizationId = org /\ users[id].role = "DOCTOR"

\* A conflict lookup with exclusive bounds (gt / lt instead of gte / lte).
ConflictingAppointments_Exclusive(doctorId, start, duration, except) ==
    {a \in AppointmentIds \ {except} :
        /\ appointments[a] # Null
        /\ appointments[a].doctorId = doctorId
        /\ appointments[a].appointmentDate > start - duration
        /\ appointments[a].appointmentDate < start + duration
        /\ appointments[a].status \in {"SCHEDULED", "CONFIRMED"}}

\* The conflict lookup shared by createAppointment and updateAppointment:
\* an appointment of the doctor, other than `except`, SCHEDULED or CONFIRMED,
\* whose appointmentDate lies in [start - duration, start + duration].
ConflictingAppointments(doctorId, start, duration, except) ==
    {a \in AppointmentIds \ {except} :
        /\ appointments[a] # Null
        /\ appointments[a].doctorId = doctorId
        /\ appointments[a].appointmentDate >= start - duration
        /\ appointments[a].appointmentDate <= start + duration
        /\ appointments[a].status \in {"SCHEDULED", "CONFIRMED"}}

\* POST /api/appointments
createAppointment(req) ==
    LET userId == ReqUserId(req.user)
        b == req.body
        org == UserOrganization(userId)
        duration == IF b.duration # NoDuration THEN b.duration ELSE DefaultDuration
        newId == FreeId(appointments)
        row == [patientId |-> b.patientId, doctorId |-> b.doctorId, clinicId |-> b.clinicId,
                appointmentDate |-> b.appointmentDate, duration |-> duration,
                status |-> "SCHEDULED"]
    IN  IF PrologueThrows(userId)
        THEN Out(500, "Failed to create appointment", Null, appointments)
        ELSE IF org = NoId
        THEN Out(404, "Organization not found", Null, appointments)
        ELSE IF ~PatientInOrg(b.patientId, org)
        THEN Out(400, "Invalid patient selected", Null, appointments)
        ELSE IF ~DoctorInOrg(b.doctorId, org)
        THEN Out(400, "Invalid doctor selected", Null, appointments)
        ELSE IF ~ClinicInOrg(b.clinicId, org)
        THEN Out(400, "Invalid clinic selected", Null, appointments)
        ELSE IF b.appointmentDate <= now
        THEN Out(400, "Appointment must be scheduled for a future date and time", Null,
                 appointments)
        ELSE IF ConflictingAppointments(b.doctorId, b.appointmentDate, duration, NoId) # {}
        THEN Out(400, "Doctor has a conflicting appointment at this time", Null, appointments)
        ELSE Out(201, "", [id |-> newId] @@ row, [appointments EXCEPT ![newId] = row])

\* The lookup shared by getAppointmentById, updateAppointment and
\* deleteAppointment: { id, clinic: { organizationId } }, plus doctorId = userId
\* for a caller with role DOCTOR.
AppointmentVisible(id, userId, org) ==
    /\ id \in AppointmentIds /\ appointments[id] # Null
    /\ AppointmentOrg(id) = org
    /\ (users[userId].role = "DOCTOR" => appointments[id].doctorId = userId)

\* GET /api/appointments/:id
getAppointmentById(req) ==
    LET userId == ReqUserId(req.user)
        id == req.params.id
        org == UserOrganization(userId)
    IN  IF PrologueThrows(userId)
        THEN Reply(404, "Appointment not found", Null)
        ELSE IF org = NoId
        THEN Reply(404, "Organization not found", Null)
        ELSE IF ~AppointmentVisible(id, userId, org)
        THEN Reply(404, "Appointment not found", Null)
        ELSE Reply(200, "", [id |-> id] @@ appointments[id])

\* PUT /api/appointments/:id
updateAppointment(req) ==
    LET userId == ReqUserId(req.user)
        id == req.params.id
        b == req.body
        org == UserOrganization(userId)
        old == appointments[id]
        checkDoctor == IF b.doctorId # NoId THEN b.doctorId ELSE old.doctorId
        checkDuration == IF b.duration # NoDuration THEN b.duration ELSE old.duration
        \* prisma update: an undefined field is left as it is
        row == [patientId |-> IF b.patientId # NoId THEN b.patientId ELSE old.patientId,
                doctorId |-> IF b.doctorId # NoId THEN b.doctorId ELSE old.doctorId,
                clinicId |-> IF b.clinicId # NoId THEN b.clinicId ELSE old.clinicId,
                appointmentDate |-> IF b.appointmentDate # NoDate
                                    THEN b.appointmentDate ELSE old.appointmentDate,
                duration |-> IF b.duration # NoDuration THEN b.duration ELSE old.duration,
                status |-> IF b.status # NoStatus THEN b.status ELSE old.status]
        foreignKeysHold ==
            /\ row.patientId \in PatientIds /\ patients[row.patientId] # Null
            /\ row.doctorId \in UserIds /\ users[row.doctorId] # Null
            /\ row.clinicId \in ClinicIds /\ clinics[row.clinicId] # Null
    IN  IF PrologueThrows(userId)
        THEN Out(404, "Appointment not found", Null, appointments)
        ELSE IF org = NoId
        THEN Out(404, "Organization not found", Null, appointments)
        ELSE IF ~AppointmentVisible(id, userId, org)
        THEN Out(404, "Appointment not found", Null, appointments)
        ELSE IF b.status # NoStatus /\ b.status \notin Statuses
        THEN Out(400, "Invalid appointment status", Null, appointments)
        \* appointmentDate !== existingAppointment.appointmentDate compares the
        \* request's string with a Date object: true whenever a date is given
        ELSE IF b.appointmentDate # NoDate /\ b.appointmentDate <= now
        THEN Out(400, "Appointment must be scheduled for a future date and time", Null,
                 appointments)
        ELSE IF /\ b.appointmentDate # NoDate
                /\ ConflictingAppointments(checkDoctor, b.appointmentDate, checkDuration, id) # {}
        THEN Out(400, "Doctor has a conflicting appointment at this time", Null, appointments)
        ELSE IF ~foreignKeysHold
        THEN Out(404, "Appointment not found", Null, appointments)
        ELSE Out(200, "", [id |-> id] @@ row, [appointments EXCEPT ![id] = row])

\* DELETE /api/appointments/:id
\* A cancellation that does not look at the appointment's status.
deleteAppointment_SkipsStatusCheck(req) ==
    LET userId == ReqUserId(req.user)
        id == req.params.id
        org == UserOrganization(userId)
    IN  IF PrologueThrows(userId)
        THEN Out(400, "Cannot cancel appointment", Null, appointments)
        ELSE IF org = NoId
        THEN Out(404, "Organization not found", Null, appointments)
        ELSE IF ~AppointmentVisible(id, userId, org)
        THEN Out(404, "Appointment not found", Null, appointments)
        ELSE IF appointments[id].appointmentDate <= now
        THEN Out(400, "Cannot cancel past appointments", Null, appointments)
        ELSE Out(200, "", Null, [appointments EXCEPT ![id].status = "CANCELLED"])

deleteAppointment(req) ==
    LET userId == ReqUserId(req.user)
        id == req.params.id
        org == UserOrganization(userId)
    IN  IF PrologueThrows(userId)
        THEN Out(400, "Cannot cancel appointment", Null, appointments)
        ELSE IF org = NoId
        THEN Out(404, "Organization not found", Null, appointments)
        ELSE IF ~AppointmentVisible(id, userId, org)
        THEN Out(404, "Appointment not found", Null, appointments)
        ELSE IF appointments[id].appointmentDate <= now
        THEN Out(400, "Cannot cancel past appointments", Null, appointments)
        ELSE IF appointments[id].status \in {"COMPLETED", "CANCELLED"}
        THEN Out(400, "Appointment is already completed or cancelled", Null, appointments)
        ELSE Out(200, "", Null, [appointments EXCEPT ![id].status = "CANCELLED"])

(***************************************************************************)
(* ehr.controller                                                          *)
(***************************************************************************)
EhrOrg(e) ==
    IF e \in DOMAIN ehrRecords /\ ehrRecords[e] # Null
    THEN PatientOrg(ehrRecords[e].patientId) ELSE NoId

\* POST /api/ehr
createEHRRecord(req) ==
    LET userId == ReqUserId(req.user)
        patientId == req.body.patientId
        org == UserOrganization(userId)
        newId == FreeId(ehrRecords)
        row == [patientId |-> patientId, doctorId |-> userId]
    IN  IF PrologueThrows(userId)
        THEN Out(500, "Failed to create EHR record", Null, ehrRecords)
        ELSE IF org = NoId
        THEN Out(404, "Organization not found", Null, ehrRecords)
        ELSE IF ~PatientInOrg(patientId, org)
        THEN Out(404, "Patient not found", Null, ehrRecords)
        ELSE Out(201, "", [id |-> newId] @@ row, [ehrRecords EXCEPT ![newId] = row])

\* GET /api/ehr/:id
getEHRRecordById(req) ==
    LET userId == ReqUserId(req.user)
        id == req.params.id
        org == UserOrganization(userId)
    IN  IF PrologueThrows(userId)
        THEN Reply(404, "EHR record not found", Null)
        ELSE IF org = NoId
        THEN Reply(404, "Organization not found", Null)
        ELSE IF ~(id \in EhrIds /\ ehrRecords[id] # Null /\ EhrOrg(id) = org)
        THEN Reply(404, "EHR record not found", Null)
        ELSE Reply(200, "", [id |-> id] @@ ehrRecords[id])

(***************************************************************************)
(* Actions: one handler call each.  A handler invoked with                 *)
(* req.user.userId = u acts for user u.                                    *)
(***************************************************************************)
HandlerReq(u, params, query, body) ==
    [user |-> [userId |-> u], params |-> params, query |-> query, body |-> body]

Respond(op, caller, arg, out) ==
    res' = [op |-> op, caller |-> caller, arg |-> arg,
            status |-> out.status, error |-> out.error, body |-> out.body]

CreatePatient(u, phone, clinicId) ==
    LET out == createPatient(HandlerReq(u, Null, Null, [phone |-> phone, clinicId |-> clinicId]))
    IN  /\ out.status = 201 => FreeId(patients) # NoId
        /\ patients' = out.table
        /\ Respond("createPatient", u, NoId, out)
        /\ UNCHANGED <<users, organizations, clinics, appointments, ehrRecords, invites,
                       backups, now,
                   organizationAddOns, subscriptions, inflight>>

UpdatePatient(u, id, phone, clinicId) ==
    LET out == updatePatient(HandlerReq(u, [id |-> id], Null,
                                        [phone |-> phone, clinicId |-> clinicId]))
    IN  /\ patients' = out.table
        /\ Respond("updatePatient", u, id, out)
        /\ UNCHANGED <<users, organizations, clinics, appointments, ehrRecords, invites,
                       backups, now,
                   organizationAddOns, subscriptions, inflight>>

GetPatientById(u, id) ==
    /\ Respond("getPatientById", u, id, getPatientById(HandlerReq(u, [id |-> id], Null, Null)))
    /\ UNCHANGED <<users, organizations, clinics, patients, appointments, ehrRecords,
                   invites, backups, now,
                   organizationAddOns, subscriptions, inflight>>

GetClinicById(u, id) ==
    /\ Respond("getClinicById", u, id, getClinicById(HandlerReq(u, [id |-> id], Null, Null)))
    /\ UNCHANGED <<users, organizations, clinics, patients, appointments, ehrRecords,
                   invites, backups, now,
                   organizationAddOns, subscriptions, inflight>>

AppointmentBody(patientId, doctorId, clinicId, appointmentDate, duration, status) ==
    [patientId |-> patientId, doctorId |-> doctorId, clinicId |-> clinicId,
     appointmentDate |-> appointmentDate, duration |-> duration, status |-> status]

CreateAppointment(u, body) ==
    LET out == createAppointment(HandlerReq(u, Null, Null, body))
    IN  /\ out.status = 201 => FreeId(appointments) # NoId
        /\ appointments' = out.table
        /\ Respond("createAppointment", u, NoId, out)
        /\ UNCHANGED <<users, organizations, clinics, patients, ehrRecords, invites,
                       backups, now,
                   organizationAddOns, subscriptions, inflight>>

UpdateAppointment(u, id, body) ==
    LET out == updateAppointment(HandlerReq(u, [id |-> id], Null, body))
    IN  /\ appointments' = out.table
        /\ Respond("updateAppointment", u, id, out)
        /\ UNCHANGED <<users, organizations, clinics, patients, ehrRecords, invites,
                       backups, now,
                   organizationAddOns, subscriptions, inflight>>

DeleteAppointment(u, id) ==
    LET out == deleteAppointment(HandlerReq(u, [id |-> id], Null, Null))
    IN  /\ appointments' = out.table
        /\ Respond("deleteAppointment", u, id, out)
        /\ UNCHANGED <<users, organizations, clinics, patients, ehrRecords, invites,
                       backups, now,
                   organizationAddOns, subscriptions, inflight>>

AppointmentQuery(date, doctor, clinic, status) ==
    [date |-> date, doctor |-> doctor, clinic |-> clinic, status |-> status]

GetAppointments(u, query) ==
    /\ Respond("getAppointments", u, NoId, getAppointments(HandlerReq(u, Null, query, Null)))
    /\ UNCHANGED <<users, organizations, clinics, patients, appointments, ehrRecords,
                   invites, backups, now,
                   organizationAddOns, subscriptions, inflight>>

GetAppointmentById(u, id) ==
    /\ Respond("getAppointmentById", u, id,
               getAppointmentById(HandlerReq(u, [id |-> id], Null, Null)))
    /\ UNCHANGED <<users, organizations, clinics, patients, appointments, ehrRecords,
                   invites, backups, now,
                   organizationAddOns, subscriptions, inflight>>

CreateEHRRecord(u, patientId) ==
    LET out == createEHRRecord(HandlerReq(u, Null, Null, [patientId |-> patientId]))
    IN  /\ out.status = 201 => FreeId(ehrRecords) # NoId
        /\ ehrRecords' = out.table
        /\ Respond("createEHRRecord", u, NoId, out)
        /\ UNCHANGED <<users, organizations, clinics, patients, appointments, invites,
                       backups, now,
                   organizationAddOns, subscriptions, inflight>>

GetEHRRecordById(u, id) ==
    /\ Respond("getEHRRecordById", u, id,
               getEHRRecordById(HandlerReq(u, [id |-> id], Null, Null)))
    /\ UNCHANGED <<users, organizations, clinics, patients, appointments, ehrRecords,
                   invites, backups, now,
                   organizationAddOns, subscriptions, inflight>>

(***************************************************************************)
(* The tenant population the clinical specifications start from: two       *)
(* organizations with their members and one clinic each, as left by        *)
(* createOrganization, joinOrganization and createClinic.                  *)
(***************************************************************************)
UserRow(email, role, organizationId, isEmailVerified, token, createdAt) ==
    [email |-> email, role |-> role, organizationId |-> organizationId,
     isEmailVerified |-> isEmailVerified, emailVerificationToken |-> token,
     createdAt |-> createdAt]

\* The first time of the model: the start of a day, in minutes.
StartOfDay == DayMinutes

TenantUser(u) ==
    CASE u = 1 -> UserRow(u, "ADMIN", 1, TRUE, NoId, StartOfDay)
      [] u = 2 -> UserRow(u, "DOCTOR", 1, TRUE, NoId, StartOfDay)
      [] u = 3 -> UserRow(u, "DOCTOR", 1, TRUE, NoId, StartOfDay)
      [] u = 4 -> UserRow(u, "STAFF", 2, TRUE, NoId, StartOfDay)
      [] u = 5 -> UserRow(u, "DOCTOR", 2, TRUE, NoId, StartOfDay)
      [] OTHER -> UserRow(u, "DOCTOR", NoId, TRUE, NoId, StartOfDay)

TenantClinicOrg(c) == ((c - 1) % 2) + 1

NoResponse == [op |-> "", caller |-> NoId, arg |-> NoId, status |-> 0, error |-> "",
               body |-> Null]

InitTenant ==
    /\ users = [u \in UserIds |-> TenantUser(u)]
    /\ organizations = {1, 2}
    /\ clinics = [c \in ClinicIds |-> [organizationId |-> TenantClinicOrg(c)]]
    /\ patients = [p \in PatientIds |-> Null]
    /\ appointments = [a \in AppointmentIds |-> Null]
    /\ ehrRecords = [e \in EhrIds |-> Null]
    /\ invites = [i \in InviteIds |-> Null]
    /\ backups = <<>>
    /\ organizationAddOns = NoAddOns
    /\ subscriptions = <<>>
    /\ inflight = NoRequests
    /\ now = StartOfDay
    /\ res = NoResponse

(***************************************************************************)
(* SpecPatients: the patient handlers over the tenant population.          *)
(***************************************************************************)
PatientPhones == {PhoneA, PhoneB, PhoneBadLead, PhoneShort}

NextPatients ==
    \/ \E u \in UserIds, phone \in PatientPhones, c \in ClinicIds : CreatePatient(u, phone, c)
    \/ \E u \in UserIds, id \in PatientIds, phone \in PatientPhones \cup {NoPhone},
          c \in ClinicIds \cup {NoId} : UpdatePatient(u, id, phone, c)

SpecPatients == InitTenant /\ [][NextPatients]_vars

\* C3: createPatient with a phone that another patient of the caller's
\* organization holds answers 400 and writes nothing; updatePatient to a
\* phone that another patient of the organization holds answers 400 and
\* writes nothing; an update that omits the phone or re-submits the patient's
\* own phone answers 200 and keeps the phone.
C3_DuplicatePhoneRejected ==
    /\ \A u \in UserIds, phone \in PatientPhones, c \in ClinicIds :
          LET out == createPatient(HandlerReq(u, Null, Null,
                                              [phone |-> phone, clinicId |-> c]))
              org == users[u].organizationId
          IN  (\E p \in PatientIds : /\ patients[p] # Null
                                     /\ patients[p].phone = phone
                                     /\ org # NoId /\ PatientOrg(p) = org)
              => out.status = 400 /\ out.table = patients
    /\ \A u \in UserIds, id \in PatientIds, phone \in PatientPhones \cup {NoPhone},
          c \in ClinicIds \cup {NoId} :
          LET out == updatePatient(HandlerReq(u, [id |-> id], Null,
                                              [phone |-> phone, clinicId |-> c]))
              org == users[u].organizationId
              own == phone = NoPhone \/ phone = patients[id].phone
          IN  (patients[id] # Null /\ org # NoId /\ PatientOrg(id) = org)
              => /\ (~own /\ \E p \in PatientIds \ {id} : /\ patients[p] # Null
                                                         /\ patients[p].phone = phone
                                                         /\ PatientOrg(p) = org)
                    => out.status = 400 /\ out.table = patients
                 /\ own => /\ out.status = 200
                           /\ out.table[id].phone = patients[id].phone

\* An updatePatient was refused as a duplicate of another patient of the
\* organization, and the patient kept its phone.
C3_Witness ==
    /\ res.op = "updatePatient"
    /\ res.status = 400
    /\ res.error = "Another patient with this phone number already exists"
    /\ \E p \in PatientIds \ {res.arg} :
          /\ patients[p] # Null /\ patients[res.arg] # Null
          /\ PatientOrg(p) = PatientOrg(res.arg)
          /\ patients[p].phone # patients[res.arg].phone

(***************************************************************************)
(* SpecGetById: the four get-by-id handlers over patients, appointments    *)
(* and EHR records of both organizations.                                  *)
(***************************************************************************)
GetByIdTime == StartOfDay + 60

\* The writers of this specification: one member and one doctor of each
\* organization.
GetByIdWriters == {1, 4}
GetByIdDoctors == {2, 5}

NextGetById ==
    \/ \E u \in GetByIdWriters, c \in ClinicIds : CreatePatient(u, PhoneA, c)
    \/ \E u \in GetByIdWriters, p \in PatientIds, d \in GetByIdDoctors, c \in ClinicIds :
          CreateAppointment(u, AppointmentBody(p, d, c, GetByIdTime, NoDuration, NoStatus))
    \/ \E u \in GetByIdDoctors, p \in PatientIds : CreateEHRRecord(u, p)
    \/ \E u \in UserIds, id \in ClinicIds : GetClinicById(u, id)
    \/ \E u \in UserIds, id \in PatientIds : GetPatientById(u, id)
    \/ \E u \in UserIds, id \in AppointmentIds : GetAppointmentById(u, id)
    \/ \E u \in UserIds, id \in EhrIds : GetEHRRecordById(u, id)

SpecGetById == InitTenant /\ [][NextGetById]_vars

NotFoundOnly(reply) == reply.status = 404 /\ reply.body = Null

\* C1: in every state, a get-by-id request for an existing clinic, patient,
\* appointment or EHR record by a caller whose organization is not the one
\* that owns it is answered 404 with no field of the entity.
C1_CrossTenantNotFound ==
    \A u \in UserIds :
        LET org == users[u].organizationId
        IN  /\ \A id \in ClinicIds :
                  (clinics[id] # Null /\ ClinicOrg(id) # org)
                  => NotFoundOnly(getClinicById(HandlerReq(u, [id |-> id], Null, Null)))
            /\ \A id \in PatientIds :
                  (patients[id] # Null /\ PatientOrg(id) # org)
                  => NotFoundOnly(getPatientById(HandlerReq(u, [id |-> id], Null, Null)))
            /\ \A id \in AppointmentIds :
                  (appointments[id] # Null /\ AppointmentOrg(id) # org)
                  => NotFoundOnly(getAppointmentById(HandlerReq(u, [id |-> id], Null, Null)))
            /\ \A id \in EhrIds :
                  (ehrRecords[id] # Null /\ EhrOrg(id) # org)
                  => NotFoundOnly(getEHRRecordById(HandlerReq(u, [id |-> id], Null, Null)))

\* A member of one organization asked for an existing patient of the other
\* one and was answered 404.
C1_Witness ==
    /\ res.op = "getPatientById"
    /\ res.status = 404
    /\ patients[res.arg] # Null
    /\ users[res.caller].organizationId # NoId
    /\ PatientOrg(res.arg) # users[res.caller].organizationId

(***************************************************************************)
(* SpecAppointments: booking, confirming, cancelling and listing the       *)
(* appointments of organization 1, whose patients already exist.           *)
(***************************************************************************)
TenantPatient(p) ==
    [phone |-> IF p <= 2 THEN PhoneA ELSE PhoneB, clinicId |-> ((p - 1) % MaxClinics) + 1]

InitAppointments ==
    /\ users = [u \in UserIds |-> TenantUser(u)]
    /\ organizations = {1, 2}
    /\ clinics = [c \in ClinicIds |-> [organizationId |-> TenantClinicOrg(c)]]
    /\ patients = [p \in PatientIds |-> TenantPatient(p)]
    /\ appointments = [a \in AppointmentIds |-> Null]
    /\ ehrRecords = [e \in EhrIds |-> Null]
    /\ invites = [i \in InviteIds |-> Null]
    /\ backups = <<>>
    /\ organizationAddOns = NoAddOns
    /\ subscriptions = <<>>
    /\ inflight = NoRequests
    /\ now = StartOfDay
    /\ res = NoResponse

\* Requested start times: now, and every quarter of the next hour.
ApptTimes == {StartOfDay + 15 * k : k \in 0..4}
\* validateAppointment: duration is optional, an integer from 15 to 480.
ApptDurations == {NoDuration, 15, 30}
ApptDoctors == {2, 3}

NextAppointments ==
    \/ \E d \in ApptDoctors, t \in ApptTimes, dur \in ApptDurations :
          CreateAppointment(1, AppointmentBody(1, d, 1, t, dur, NoStatus))
    \/ \E id \in AppointmentIds :
          UpdateAppointment(1, id, AppointmentBody(NoId, NoId, NoId, NoDate, NoDuration,
                                                   "CONFIRMED"))
    \/ \E id \in AppointmentIds : DeleteAppointment(1, id)
    \/ \E u \in {1, 2, 4}, d \in {NoId, 3} :
          GetAppointments(u, AppointmentQuery(NoDate, d, NoId, NoStatus))

SpecAppointments == InitAppointments /\ [][NextAppointments]_vars

\* The createAppointment requests of caller u, over the ids, times and
\* durations of the model, that pass every check before the conflict lookup:
\* patient, doctor (role DOCTOR) and clinic of the caller's organization, and
\* a start in the future.
ValidBookings(u) ==
    LET org == users[u].organizationId
    IN  IF org = NoId THEN {}
        ELSE {AppointmentBody(p, d, c, t, dur, NoStatus) :
                p \in {x \in PatientIds : PatientOrg(x) = org},
                d \in {x \in UserIds : users[x].organizationId = org
                                        /\ users[x].role = "DOCTOR"},
                c \in {x \in ClinicIds : ClinicOrg(x) = org},
                t \in {x \in ApptTimes : x > now},
                dur \in ApptDurations}

EffectiveDuration(b) == IF b.duration = NoDuration THEN DefaultDuration ELSE b.duration

Distance(x, y) == IF x >= y THEN x - y ELSE y - x

ActiveAppointmentsOf(d) ==
    {a \in AppointmentIds : /\ appointments[a] # Null
                            /\ appointments[a].doctorId = d
                            /\ appointments[a].status \in {"SCHEDULED", "CONFIRMED"}}

AppointmentsOf(d) ==
    {a \in AppointmentIds : appointments[a] # Null /\ appointments[a].doctorId = d}

Conflict(out) ==
    /\ out.status = 400
    /\ out.error = "Doctor has a conflicting appointment at this time"
    /\ out.table = appointments

\* C4 as claimed: a valid booking is refused as a conflict whenever the
\* doctor has a SCHEDULED or CONFIRMED appointment whose window
\* [start - duration, start + duration] overlaps the requested window
\* [S - d, S + d].
C4_Original_WindowOverlapRejected ==
    \A u \in UserIds : \A b \in ValidBookings(u) :
        (\E a \in ActiveAppointmentsOf(b.doctorId) :
            Distance(appointments[a].appointmentDate, b.appointmentDate)
               <= appointments[a].duration + EffectiveDuration(b))
        => Conflict(createAppointment(HandlerReq(u, Null, Null, b)))

\* C4 amended: a valid booking is refused as a conflict, and nothing is
\* created, whenever the doctor has a SCHEDULED or CONFIRMED appointment whose
\* start lies in [S - d, S + d], d being the requested duration (30 when
\* omitted), whatever the existing appointment's own duration; and a valid
\* booking refused as a conflict always has such an appointment.
C4_StartWithinRequestedWindowRejected ==
    \A u \in UserIds : \A b \in ValidBookings(u) :
        LET out == createAppointment(HandlerReq(u, Null, Null, b))
            hit == \E a \in ActiveAppointmentsOf(b.doctorId) :
                      Distance(appointments[a].appointmentDate, b.appointmentDate)
                         <= EffectiveDuration(b)
        IN  /\ hit => Conflict(out)
            /\ out.error = "Doctor has a conflicting appointment at this time" => hit

\* A booking was refused as a conflict with an appointment of another duration.
C4_Witness ==
    /\ res.op = "createAppointment"
    /\ res.status = 400
    /\ res.error = "Doctor has a conflicting appointment at this time"
    /\ \E a, b \in AppointmentIds :
          /\ appointments[a] # Null /\ appointments[b] # Null
          /\ appointments[a].duration # appointments[b].duration
          /\ appointments[a].status = "CONFIRMED"

\* C5: when doctor D holds exactly one appointment, SCHEDULED at T with
\* duration d, a valid booking for D with the same duration d is refused as a
\* conflict if its start is at most d minutes from T, and creates a SCHEDULED
\* appointment if its start is more than d minutes from T.
C5_SecondBookingScenario ==
    \A u \in UserIds : \A b \in ValidBookings(u) :
        LET out == createAppointment(HandlerReq(u, Null, Null, b))
            d == EffectiveDuration(b)
            newId == FreeId(appointments)
        IN  \A a \in AppointmentsOf(b.doctorId) :
                (/\ AppointmentsOf(b.doctorId) = {a}
                 /\ appointments[a].status = "SCHEDULED"
                 /\ appointments[a].duration = d)
                => IF Distance(appointments[a].appointmentDate, b.appointmentDate) <= d
                   THEN Conflict(out)
                   ELSE /\ out.status = 201
                        /\ newId # NoId =>
                              /\ out.table[newId].status = "SCHEDULED"
                              /\ out.table[newId].doctorId = b.doctorId
                              /\ out.table[newId].appointmentDate = b.appointmentDate
                              /\ \A x \in AppointmentIds \ {newId} :
                                    out.table[x] = appointments[x]

\* Doctor D holds two SCHEDULED 30-minute appointments 45 minutes apart, the
\* second one just booked.
C5_Witness ==
    /\ res.op = "createAppointment"
    /\ res.status = 201
    /\ \E a, b \in AppointmentIds :
          /\ appointments[a] # Null /\ appointments[b] # Null
          /\ appointments[a].doctorId = appointments[b].doctorId
          /\ appointments[a].duration = 30 /\ appointments[b].duration = 30
          /\ appointments[a].status = "SCHEDULED" /\ appointments[b].status = "SCHEDULED"
          /\ appointments[b].appointmentDate = appointments[a].appointmentDate + 45

\* Every getAppointments query over the ids and statuses of the model.
AppointmentQueries ==
    {AppointmentQuery(date, d, c, st) :
        date \in {NoDate, StartOfDay, StartOfDay + DayMinutes},
        d \in UserIds \cup {NoId}, c \in ClinicIds \cup {NoId},
        st \in {NoStatus, "SCHEDULED", "CANCELLED"}}

\* C2: getAppointments answers a STAFF or ADMIN caller that sets no filter
\* with every appointment of the caller's organization, and answers a DOCTOR
\* caller, whatever the filters, only with appointments whose doctorId is the
\* caller.
C2_RoleScopedListing ==
    \A u \in UserIds, q \in AppointmentQueries :
        LET out == getAppointments(HandlerReq(u, Null, q, Null))
            org == users[u].organizationId
        IN  org # NoId =>
              /\ out.status = 200
              /\ (users[u].role \in {"STAFF", "ADMIN"}
                  /\ q = AppointmentQuery(NoDate, NoId, NoId, NoStatus))
                 => out.body = {a \in AppointmentIds : appointments[a] # Null
                                                     /\ AppointmentOrg(a) = org}
              /\ users[u].role = "DOCTOR"
                 => \A a \in out.body : appointments[a].doctorId = u

(***************************************************************************)
(* organizations.controller                                                *)
(***************************************************************************)
NoRole == ""

\* const expiresAt = new Date(Date.now() + 7 * 24 * 60 * 60 * 1000), in minutes
InviteTtl == 7 * 24 * 60

\* What an organizations handler writes: users, organizations and invites.
OrgTables == [users |-> users, organizations |-> organizations, invites |-> invites]

FreeOrgId ==
    IF OrgIds \ organizations = {} THEN NoId
    ELSE CHOOSE o \in OrgIds \ organizations : \A x \in OrgIds \ organizations : o <= x

\* POST /api/organizations
createOrganization(req) ==
    LET userId == ReqUserId(req.user)
        newOrg == FreeOrgId
    IN  IF PrologueThrows(userId)
        THEN Out(500, "Failed to create organization", Null, OrgTables)
        ELSE IF users[userId].organizationId # NoId
        THEN Out(400, "User already belongs to an organization", Null, OrgTables)
        ELSE Out(201, "", [id |-> newOrg],
                 [OrgTables EXCEPT
                    !.organizations = organizations \cup {newOrg},
                    !.users = [users EXCEPT ![userId].organizationId = newOrg,
                                            ![userId].role = "ADMIN"]])

\* prisma.user.findUnique({ where: { email } })
UsersWithEmail(email) == {u \in UserIds : users[u] # Null /\ users[u].email = email}

\* An expiry test with the comparison reversed.
InviteExpired_Reversed(invite) == invite.expiresAt > now

\* if (invite.expiresAt < new Date())
InviteExpired(invite) == invite.expiresAt < now

\* POST /api/organizations/invite; mailSent tells whether sendEmail, called
\* after the invite row is created, returns or throws.
inviteUser(req, mailSent) ==
    LET userId == ReqUserId(req.user)
        email == req.body.email
        role == IF req.body.role # NoRole THEN req.body.role ELSE "DOCTOR"
        org == UserOrganization(userId)
        newId == FreeId(invites)
        pending == {i \in InviteIds : /\ invites[i] # Null
                                      /\ invites[i].email = email
                                      /\ invites[i].organizationId = org
                                      /\ ~invites[i].isUsed
                                      /\ invites[i].expiresAt > now}
        row == [email |-> email, role |-> role, organizationId |-> org,
                invitedBy |-> userId, isUsed |-> FALSE, expiresAt |-> now + InviteTtl]
    IN  IF PrologueThrows(userId)
        THEN Out(500, "Failed to send invitation", Null, OrgTables)
        ELSE IF org = NoId
        THEN Out(404, "Organization not found", Null, OrgTables)
        ELSE IF UsersWithEmail(email) # {}
        THEN Out(400, "User with this email already exists", Null, OrgTables)
        ELSE IF pending # {}
        THEN Out(400, "Invitation already sent to this email", Null, OrgTables)
        ELSE IF ~mailSent
        THEN Out(500, "Failed to send invitation", Null,
                 [OrgTables EXCEPT !.invites = [invites EXCEPT ![newId] = row]])
        ELSE Out(200, "", [token |-> newId],
                 [OrgTables EXCEPT !.invites = [invites EXCEPT ![newId] = row]])

\* POST /api/organizations/join/:token  (the invite's token is its id here)
joinOrganization(req) ==
    LET userId == ReqUserId(req.user)
        token == req.params.token
        invite == invites[token]
    IN  IF token \notin InviteIds \/ invites[token] = Null
        THEN Out(400, "Invalid invitation token", Null, OrgTables)
        ELSE IF invite.isUsed
        THEN Out(400, "Invitation has already been used", Null, OrgTables)
        ELSE IF InviteExpired(invite)
        THEN Out(400, "Invitation has expired", Null, OrgTables)
        ELSE IF PrologueThrows(userId)
        THEN Out(400, "Invalid or expired invitation", Null, OrgTables)
        ELSE IF users[userId].organizationId # NoId
        THEN Out(400, "User already belongs to an organization", Null, OrgTables)
        ELSE Out(200, "", [id |-> invite.organizationId],
                 [OrgTables EXCEPT
                    !.users = [users EXCEPT ![userId].organizationId = invite.organizationId,
                                            ![userId].role = invite.role],
                    !.invites = [invites EXCEPT ![token].isUsed = TRUE]])

\* An admin count over every organization.
AdminCount_AllOrgs(org) ==
    Cardinality({u \in UserIds : users[u] # Null /\ users[u].role = "ADMIN"})

\* prisma.user.count({ where: { organizationId, role: 'ADMIN' } })
AdminCount(org) ==
    Cardinality({u \in UserIds : /\ users[u] # Null
                                 /\ users[u].organizationId = org
                                 /\ users[u].role = "ADMIN"})

\* DELETE /api/organizations/users/:userId
removeUserFromOrganization(req) ==
    LET adminUserId == ReqUserId(req.user)
        targetUserId == req.params.userId
        org == UserOrganization(adminUserId)
    IN  IF PrologueThrows(adminUserId)
        THEN Out(400, "Cannot remove user", Null, OrgTables)
        ELSE IF org = NoId
        THEN Out(404, "Organization not found", Null, OrgTables)
        ELSE IF ~(/\ targetUserId \in UserIds /\ users[targetUserId] # Null
                  /\ users[targetUserId].organizationId = org)
        THEN Out(404, "User not found in organization", Null, OrgTables)
        ELSE IF users[targetUserId].role = "ADMIN" /\ AdminCount(org) <= 1
        THEN Out(400, "Cannot remove the last admin from organization", Null, OrgTables)
        ELSE Out(200, "", Null,
                 [OrgTables EXCEPT
                    !.users = [users EXCEPT ![targetUserId].organizationId = NoId]])

WriteOrgTables(out) ==
    /\ users' = out.table.users
    /\ organizations' = out.table.organizations
    /\ invites' = out.table.invites

CreateOrganization(u) ==
    LET out == createOrganization(HandlerReq(u, Null, Null, Null))
    IN  /\ out.status = 201 => FreeOrgId # NoId
        /\ WriteOrgTables(out)
        /\ Respond("createOrganization", u, NoId, out)
        /\ UNCHANGED <<clinics, patients, appointments, ehrRecords, backups, now,
                   organizationAddOns, subscriptions, inflight>>

InviteUser(u, email, role, mailSent) ==
    LET out == inviteUser(HandlerReq(u, Null, Null, [email |-> email, role |-> role]), mailSent)
    IN  /\ out.table.invites # invites => FreeId(invites) # NoId
        /\ WriteOrgTables(out)
        /\ Respond("inviteUser", u, NoId, out)
        /\ UNCHANGED <<clinics, patients, appointments, ehrRecords, backups, now,
                   organizationAddOns, subscriptions, inflight>>

JoinOrganization(u, token) ==
    LET out == joinOrganization(HandlerReq(u, [token |-> token], Null, Null))
    IN  /\ WriteOrgTables(out)
        /\ Respond("joinOrganization", u, token, out)
        /\ UNCHANGED <<clinics, patients, appointments, ehrRecords, backups, now,
                   organizationAddOns, subscriptions, inflight>>

RemoveUserFromOrganization(u, target) ==
    LET out == removeUserFromOrganization(HandlerReq(u, [userId |-> target], Null, Null))
    IN  /\ WriteOrgTables(out)
        /\ Respond("removeUserFromOrganization", u, target, out)
        /\ UNCHANGED <<clinics, patients, appointments, ehrRecords, backups, now,
                   organizationAddOns, subscriptions, inflight>>

\* Time passes: new Date() / Date.now() grows by `minutes`, up to `limit`.
Tick(minutes, limit) ==
    /\ now + minutes <= limit
    /\ now' = now + minutes
    /\ UNCHANGED <<users, organizations, clinics, patients, appointments, ehrRecords,
                   invites, backups, res,
                   organizationAddOns, subscriptions, inflight>>

(***************************************************************************)
(* SpecOrganizations: verified users without organization create           *)
(* organizations, invite, join and remove each other while time passes.    *)
(***************************************************************************)
\* The clock of this specification advances in steps of one invite lifetime.
MaxInviteLifetimes == 2

\* Users that create organizations, invite, join and remove in this
\* specification, and the addresses that are invited.
OrgCreators == {1, 2}
OrgInviters == {1}
OrgJoiners == {2, 3}
OrgRemovers == {1, 2}
OrgTargets == 1..3
InviteEmails == {101}

InitOrganizations ==
    /\ users = [u \in UserIds |-> UserRow(u, "DOCTOR", NoId, TRUE, NoId, StartOfDay)]
    /\ organizations = {}
    /\ clinics = [c \in ClinicIds |-> Null]
    /\ patients = [p \in PatientIds |-> Null]
    /\ appointments = [a \in AppointmentIds |-> Null]
    /\ ehrRecords = [e \in EhrIds |-> Null]
    /\ invites = [i \in InviteIds |-> Null]
    /\ backups = <<>>
    /\ organizationAddOns = NoAddOns
    /\ subscriptions = <<>>
    /\ inflight = NoRequests
    /\ now = StartOfDay
    /\ res = NoResponse

NextOrganizations ==
    \/ \E u \in OrgCreators : CreateOrganization(u)
    \/ \E u \in OrgInviters, e \in InviteEmails, r \in {NoRole, "ADMIN"}, m \in BOOLEAN :
          InviteUser(u, e, r, m)
    \/ \E u \in OrgJoiners, t \in InviteIds : JoinOrganization(u, t)
    \/ \E u \in OrgRemovers, t \in OrgTargets : RemoveUserFromOrganization(u, t)
    \/ Tick(InviteTtl, StartOfDay + MaxInviteLifetimes * InviteTtl)

SpecOrganizations == InitOrganizations /\ [][NextOrganizations]_vars

RemoveReply(u, t) == removeUserFromOrganization(HandlerReq(u, [userId |-> t], Null, Null))

SoleAdmin(t) ==
    /\ users[t].role = "ADMIN"
    /\ \A x \in UserIds \ {t} :
          ~(users[x].organizationId = users[t].organizationId /\ users[x].role = "ADMIN")

\* C6: removeUserFromOrganization aimed at the only ADMIN of the caller's
\* organization answers 400 and leaves every user row as it was; aimed at an
\* ADMIN of an organization with two or more ADMINs, or at a non-ADMIN member,
\* it answers 200 and sets exactly the target's organizationId to null.
C6_LastAdminKept ==
    \A u \in UserIds, t \in UserIds :
        (users[u].organizationId # NoId /\ users[t].organizationId = users[u].organizationId)
        => LET out == RemoveReply(u, t)
           IN  IF SoleAdmin(t)
               THEN /\ out.status = 400
                    /\ out.error = "Cannot remove the last admin from organization"
                    /\ out.table = OrgTables
               ELSE /\ out.status = 200
                    /\ out.table.users = [users EXCEPT ![t].organizationId = NoId]
                    /\ out.table.organizations = organizations
                    /\ out.table.invites = invites

\* The last ADMIN of an organization has just been refused, after another
\* ADMIN was removed from an organization.
C6_Witness ==
    /\ res.op = "removeUserFromOrganization"
    /\ res.status = 400
    /\ res.error = "Cannot remove the last admin from organization"
    /\ users[res.arg].organizationId # NoId
    /\ users[res.arg].role = "ADMIN"
    /\ \E x \in UserIds : users[x].role = "ADMIN" /\ users[x].organizationId = NoId

JoinReply(u, t) == joinOrganization(HandlerReq(u, [token |-> t], Null, Null))

\* An invite that was consumed, or whose expiresAt lies in the past.
Spent(t) == invites[t] # Null /\ (invites[t].isUsed \/ invites[t].expiresAt < now)

SpentRejected ==
    \A t \in InviteIds : Spent(t) =>
        \A u \in UserIds :
            LET out == JoinReply(u, t)
            IN  out.status = 400 /\ out.table = OrgTables

SpentStaysSpent ==
    \A t \in InviteIds :
        /\ Spent(t) => (Spent(t))' /\ invites'[t] = invites[t]
        /\ (invites[t] = Null /\ invites'[t] # Null)
              => invites'[t].expiresAt = now + 7 * DayMinutes /\ ~invites'[t].isUsed

\* C7: an invite expires 7 days after inviteUser created it; once an invite is
\* used or its expiresAt has passed it stays so in every later state, and in
\* every such state joinOrganization with its token, by any user, answers 400
\* and changes no user and no invite.
C7_SpentInviteRejectedForever == []SpentRejected /\ [][SpentStaysSpent]_vars

\* A join with a used invite whose expiry has also passed has just been refused,
\* and the user that consumed it earlier is a member.
C7_Witness ==
    /\ res.op = "joinOrganization"
    /\ res.status = 400
    /\ invites[res.arg] # Null
    /\ invites[res.arg].isUsed
    /\ invites[res.arg].expiresAt < now
    /\ \E u \in UserIds : users[u].organizationId = invites[res.arg].organizationId
                          /\ users[u].role = invites[res.arg].role

(***************************************************************************)
(* backup.controller and utils/backup                                      *)
(***************************************************************************)
\* req.body.backupData is undefined
NoBackupData == Null

\* JSON.stringify(value): the text of the value, which is not the value.
JSONstringify(value) == [json |-> value]

\* generateLocalBackup(organizationId): the organization with its users, its
\* clinics' patients with their appointments and EHR records, its backups and
\* its invites, stamped with the time of the snapshot.
generateLocalBackup(organizationId) ==
    [organization |->
        [id |-> organizationId,
         users |-> [u \in {x \in UserIds : users[x] # Null
                                           /\ users[x].organizationId = organizationId}
                    |-> users[u]],
         clinics |-> {c \in ClinicIds : ClinicOrg(c) = organizationId},
         patients |-> [p \in {x \in PatientIds : PatientOrg(x) = organizationId}
                       |-> patients[p]],
         appointments |-> [a \in {x \in AppointmentIds :
                                    /\ appointments[x] # Null
                                    /\ PatientOrg(appointments[x].patientId) = organizationId}
                           |-> appointments[a]],
         ehrRecords |-> [e \in {x \in EhrIds : EhrOrg(x) = organizationId} |-> ehrRecords[e]],
         backups |-> SelectSeq(backups, LAMBDA b : b.organizationId = organizationId),
         invites |-> [i \in {x \in InviteIds : invites[x] # Null
                                              /\ invites[x].organizationId = organizationId}
                      |-> invites[i]]],
     backupDate |-> now,
     version |-> "1.0.0"]

\* backupData.key?.length || 0
LengthOrZero(backupData, key) ==
    IF key \in DOMAIN backupData THEN Len(backupData[key]) ELSE 0

\* restoreFromBackup(backupData, organizationId): a placeholder that writes
\* nothing and returns the sizes of the incoming collections.
restoreFromBackup(backupData, organizationId) ==
    [patients |-> LengthOrZero(backupData, "patients"),
     appointments |-> LengthOrZero(backupData, "appointments"),
     ehrRecords |-> LengthOrZero(backupData, "ehrRecords"),
     success |-> TRUE]

\* A structure test that does not look at the appointments key.
BackupDataValid_NoAppointments(backupData) ==
    /\ "organization" \in DOMAIN backupData /\ backupData.organization # NoId
    /\ "patients" \in DOMAIN backupData

\* !(!backupData.organization || !backupData.patients || !backupData.appointments)
BackupDataValid(backupData) ==
    /\ "organization" \in DOMAIN backupData /\ backupData.organization # NoId
    /\ "patients" \in DOMAIN backupData
    /\ "appointments" \in DOMAIN backupData

\* POST /api/backup/restore
restoreBackup(req) ==
    LET userId == ReqUserId(req.user)
        backupData == req.body.backupData
        org == UserOrganization(userId)
        restorePoint == [id |-> Len(backups) + 1,
                         organizationId |-> org,
                         type |-> "LOCAL",
                         fileUrl |-> JSONstringify(generateLocalBackup(org)),
                         createdBy |-> userId]
        restoreResult == restoreFromBackup(backupData, org)
    IN  IF PrologueThrows(userId)
        THEN Out(400, "Failed to restore backup", Null, backups)
        ELSE IF org = NoId
        THEN Out(404, "Organization not found", Null, backups)
        ELSE IF backupData = NoBackupData
        THEN Out(400, "Backup data is required", Null, backups)
        ELSE IF ~BackupDataValid(backupData)
        THEN Out(400, "Invalid backup data format", Null, backups)
        ELSE Out(200, "",
                 [restoredRecords |-> [patients |-> restoreResult.patients,
                                       appointments |-> restoreResult.appointments,
                                       ehrRecords |-> restoreResult.ehrRecords],
                  restorePointId |-> restorePoint.id],
                 Append(backups, restorePoint))

\* arg records which of the incoming keys the request carried.
RestoreBackup(u, backupData) ==
    LET out == restoreBackup(HandlerReq(u, Null, Null, [backupData |-> backupData]))
    IN  /\ out.table # backups => Len(backups) < MaxBackups
        /\ backups' = out.table
        /\ Respond("restoreBackup", u, DOMAIN backupData, out)
        /\ UNCHANGED <<users, organizations, clinics, patients, appointments, ehrRecords,
                       invites, now,
                   organizationAddOns, subscriptions, inflight>>

(***************************************************************************)
(* SpecBackup: members register patients and restore backups.              *)
(***************************************************************************)
BackupInputs ==
    { NoBackupData,
      [organization |-> 1, patients |-> <<1, 2>>, appointments |-> <<1>>, ehrRecords |-> <<1>>],
      [organization |-> 2, patients |-> <<>>, appointments |-> <<>>],
      [patients |-> <<1>>, appointments |-> <<1>>],
      [organization |-> NoId, patients |-> <<1>>, appointments |-> <<1>>],
      [organization |-> 1, appointments |-> <<1>>],
      [organization |-> 1, patients |-> <<1>>] }

BackupWriters == {1, 4}
BackupPhones == {PhoneA, PhoneB}
BackupClinics == {1, 2}

NextBackup ==
    \/ \E u \in BackupWriters, phone \in BackupPhones, c \in BackupClinics :
          CreatePatient(u, phone, c)
    \/ \E u \in BackupWriters, d \in BackupInputs : RestoreBackup(u, d)

SpecBackup == InitTenant /\ [][NextBackup]_vars

RestoreReply(u, d) == restoreBackup(HandlerReq(u, Null, Null, [backupData |-> d]))

HasOrganization(u) == users[u] # Null /\ users[u].organizationId \in organizations

\* The organization's patients as the tables hold them.
PatientsOfOrganization(org) ==
    [p \in {x \in PatientIds : patients[x] # Null
                               /\ clinics[patients[x].clinicId].organizationId = org}
     |-> patients[p]]

\* The last row of out.table is a new LOCAL backup of the caller's
\* organization that holds the organization's state of this moment.
CreatesRestorePoint(u, out) ==
    /\ Len(out.table) = Len(backups) + 1
    /\ SubSeq(out.table, 1, Len(backups)) = backups
    /\ LET row == out.table[Len(out.table)]
           snapshot == row.fileUrl.json
       IN  /\ row.organizationId = users[u].organizationId
           /\ row.type = "LOCAL"
           /\ row.createdBy = u
           /\ snapshot.organization.id = users[u].organizationId
           /\ snapshot.organization.patients = PatientsOfOrganization(users[u].organizationId)
           /\ Len(snapshot.organization.backups) =
                 Cardinality({i \in 1..Len(backups) :
                                backups[i].organizationId = users[u].organizationId})
           /\ snapshot.backupDate = now

signup(req, mailSent) ==
    LET email == req.body.email
        role == IF req.body.role # NoRole THEN req.body.role ELSE "DOCTOR"
        organizationId == req.body.organizationId
        newId == FreeId(users)
        row == UserRow(email, role, organizationId, FALSE, newId, now)
    IN  IF UsersWithEmail(email) # {}
        THEN Out(400, "User already exists", Null, users)
        ELSE IF organizationId # NoId /\ organizationId \notin organizations
        THEN Out(500, "Internal server error", Null, users)
        ELSE IF ~mailSent
        THEN Out(500, "Internal server error", Null, [users EXCEPT ![newId] = row])
        ELSE Out(201, "", Null, [users EXCEPT ![newId] = row])

\* const tokenExpiry = 24 * 60 * 60 * 1000, in minutes
VerificationTtl == 24 * 60

\* POST /api/auth/verify-email
verifyEmail(req) ==
    LET token == req.body.token
        found == {u \in UserIds : users[u] # Null /\ users[u].emailVerificationToken = token}
        user == CHOOSE u \in found : TRUE
    IN  IF token = NoId
        THEN Out(400, "Invalid or expired verification token", Null, users)
        ELSE IF found = {}
        THEN Out(400, "Invalid verification token", Null, users)
        ELSE IF now - users[user].createdAt > VerificationTtl
        THEN Out(400, "Verification token has expired", Null, users)
        ELSE Out(200, "", Null, [users EXCEPT ![user].isEmailVerified = TRUE,
                                              ![user].emailVerificationToken = NoId])

\* { expiresIn: '24h' }, in minutes
TokenTtl == 24 * 60

\* The Authorization header carries no token, a token that jwt.verify rejects,
\* or a token signed by login for userId that expires at exp.  The other
\* payload fields (email, role, organizationId) are never read.
Token(kind, userId, exp) == [kind |-> kind, userId |-> userId, exp |-> exp]
NoToken == Token("missing", NoId, 0)
MalformedToken == Token("malformed", NoId, 0)

\* POST /api/auth/login
login(req, passwordMatches) ==
    LET found == UsersWithEmail(req.body.email)
        user == CHOOSE u \in found : TRUE
    IN  IF found = {}
        THEN Reply(401, "Invalid credentials", Null)
        ELSE IF ~users[user].isEmailVerified
        THEN Reply(401, "Please verify your email before logging in", Null)
        ELSE IF ~passwordMatches
        THEN Reply(401, "Invalid credentials", Null)
        ELSE Reply(200, "", [token |-> Token("signed", user, now + TokenTtl)])

(***************************************************************************)
(* middleware/auth: authenticateToken                                      *)
(***************************************************************************)
AuthReply(status, error, code) ==
    [next |-> FALSE, reply |-> Reply(status, error, [code |-> code]), user |-> Null]

\* jwt.verify throws TokenExpiredError when the clock has reached exp
TokenExpired(token) == now >= token.exp

\* The middleware with the organization check ahead of the email check.
authenticateToken_OrganizationFirst(token) ==
    IF token.kind = "missing"
    THEN AuthReply(401, "Access token required", "TOKEN_MISSING")
    ELSE IF token.kind # "signed"
    THEN AuthReply(401, "Invalid token", "INVALID_TOKEN")
    ELSE IF TokenExpired(token)
    THEN AuthReply(401, "Token expired", "TOKEN_EXPIRED")
    ELSE IF token.userId \notin UserIds \/ users[token.userId] = Null
    THEN AuthReply(401, "User not found", "USER_NOT_FOUND")
    ELSE IF users[token.userId].organizationId = NoId
    THEN AuthReply(403, "User must belong to an organization", "NO_ORGANIZATION")
    ELSE IF ~users[token.userId].isEmailVerified
    THEN AuthReply(403, "Email verification required", "EMAIL_NOT_VERIFIED")
    ELSE [next |-> TRUE, reply |-> Null,
          user |-> [id |-> token.userId,
                    email |-> users[token.userId].email,
                    role |-> users[token.userId].role,
                    organizationId |-> users[token.userId].organizationId]]

authenticateToken(token) ==
    IF token.kind = "missing"
    THEN AuthReply(401, "Access token required", "TOKEN_MISSING")
    ELSE IF token.kind # "signed"
    THEN AuthReply(401, "Invalid token", "INVALID_TOKEN")
    ELSE IF TokenExpired(token)
    THEN AuthReply(401, "Token expired", "TOKEN_EXPIRED")
    ELSE IF token.userId \notin UserIds \/ users[token.userId] = Null
    THEN AuthReply(401, "User not found", "USER_NOT_FOUND")
    ELSE IF ~users[token.userId].isEmailVerified
    THEN AuthReply(403, "Email verification required", "EMAIL_NOT_VERIFIED")
    ELSE IF users[token.userId].organizationId = NoId
    THEN AuthReply(403, "User must belong to an organization", "NO_ORGANIZATION")
    ELSE [next |-> TRUE, reply |-> Null,
          user |-> [id |-> token.userId,
                    email |-> users[token.userId].email,
                    role |-> users[token.userId].role,
                    organizationId |-> users[token.userId].organizationId]]

\* body('name').trim().isLength({ min: 2, max: 100 }); names are letter sequences
validateOrganization(body) == Len(body.name) >= 2 /\ Len(body.name) <= 100

\* router.post('/', authenticateToken, validateOrganization, createOrganization)
postOrganizations(token, body) ==
    LET auth == authenticateToken(token)
    IN  IF ~auth.next
        THEN Out(auth.reply.status, auth.reply.error, auth.reply.body, OrgTables)
        ELSE IF ~validateOrganization(body)
        THEN Out(400, "Validation failed", Null, OrgTables)
        ELSE createOrganization([user |-> auth.user, params |-> Null, query |-> Null,
                                 body |-> body])

Signup(email, role, organizationId, mailSent) ==
    LET out == signup([body |-> [email |-> email, role |-> role,
                                 organizationId |-> organizationId]], mailSent)
    IN  /\ out.table # users => FreeId(users) # NoId
        /\ users' = out.table
        /\ Respond("signup", NoId, email, out)
        /\ UNCHANGED <<organizations, clinics, patients, appointments, ehrRecords, invites,
                       backups, now,
                   organizationAddOns, subscriptions, inflight>>

VerifyEmail(token) ==
    LET out == verifyEmail([body |-> [token |-> token]])
    IN  /\ users' = out.table
        /\ Respond("verifyEmail", NoId, token, out)
        /\ UNCHANGED <<organizations, clinics, patients, appointments, ehrRecords, invites,
                       backups, now,
                   organizationAddOns, subscriptions, inflight>>

Login(email, passwordMatches) ==
    LET out == login([body |-> [email |-> email]], passwordMatches)
    IN  /\ Respond("login", NoId, email, out)
        /\ UNCHANGED <<users, organizations, clinics, patients, appointments, ehrRecords,
                       invites, backups, now,
                   organizationAddOns, subscriptions, inflight>>

PostOrganizations(token, body) ==
    LET out == postOrganizations(token, body)
    IN  /\ out.status = 201 => FreeOrgId # NoId
        /\ WriteOrgTables(out)
        /\ Respond("POST /api/organizations", token.userId, token, out)
        /\ UNCHANGED <<clinics, patients, appointments, ehrRecords, backups, now,
                   organizationAddOns, subscriptions, inflight>>

(***************************************************************************)
(* SpecRoutes: people sign up, verify their address, log in and call       *)
(* POST /api/organizations with a token while days pass.                   *)
(***************************************************************************)
\* The clock of this specification advances in days.
MaxDays == 2

SignupEmails == {11, 12}
OrganizationNames == {<<"c">>, <<"c", "a", "r", "e">>}

\* Every token a request may carry.
AuthTokens ==
    {NoToken, MalformedToken}
        \cup {Token("signed", u, StartOfDay + k * TokenTtl) : u \in UserIds, k \in 1..MaxDays}

\* The tokens presented in this specification: those of the first three users.
RouteTokens == {t \in AuthTokens : t.userId \in {NoId} \cup 1..3}

InitRoutes ==
    /\ users = [u \in UserIds |-> IF u = 1 THEN UserRow(1, "ADMIN", 1, TRUE, NoId, StartOfDay)
                                  ELSE Null]
    /\ organizations = {1}
    /\ clinics = [c \in ClinicIds |-> Null]
    /\ patients = [p \in PatientIds |-> Null]
    /\ appointments = [a \in AppointmentIds |-> Null]
    /\ ehrRecords = [e \in EhrIds |-> Null]
    /\ invites = [i \in InviteIds |-> Null]
    /\ backups = <<>>
    /\ organizationAddOns = NoAddOns
    /\ subscriptions = <<>>
    /\ inflight = NoRequests
    /\ now = StartOfDay
    /\ res = NoResponse

NextRoutes ==
    \/ \E e \in SignupEmails, r \in {NoRole, "ADMIN"}, o \in {NoId} \cup OrgIds, m \in BOOLEAN :
          Signup(e, r, o, m)
    \/ \E t \in UserIds : VerifyEmail(t)
    \/ \E e \in SignupEmails \cup {1}, m \in BOOLEAN : Login(e, m)
    \/ \E t \in RouteTokens, n \in OrganizationNames : PostOrganizations(t, [name |-> n])
    \/ Tick(DayMinutes, StartOfDay + MaxDays * DayMinutes)

SpecRoutes == InitRoutes /\ [][NextRoutes]_vars

\* A verified user without organization, holding an unexpired token of login.
Unaffiliated(u, token) ==
    /\ users[u] # Null /\ users[u].isEmailVerified /\ users[u].organizationId = NoId
    /\ token.kind = "signed" /\ token.userId = u /\ token.exp > now

\* C9: POST /api/organizations by a verified user without organization, with an
\* unexpired token and a valid name, answers 201, adds an organization and
\* makes the user its ADMIN.
C9_UnaffiliatedUserCreatesOrganization ==
    \A u \in UserIds, token \in AuthTokens, n \in OrganizationNames :
        (Unaffiliated(u, token) /\ Len(n) >= 2 /\ FreeOrgId # NoId)
        => LET out == postOrganizations(token, [name |-> n])
           IN  /\ out.status = 201
               /\ out.table.organizations # organizations
               /\ out.table.users[u].role = "ADMIN"
               /\ out.table.users[u].organizationId \in out.table.organizations

\* The outcome the order of checks prescribes for a token.
ExpectedCode(token) ==
    IF token.kind = "missing" THEN "TOKEN_MISSING"
    ELSE IF token.kind = "malformed" THEN "INVALID_TOKEN"
    ELSE IF token.exp <= now THEN "TOKEN_EXPIRED"
    ELSE IF users[token.userId] = Null THEN "USER_NOT_FOUND"
    ELSE IF ~users[token.userId].isEmailVerified THEN "EMAIL_NOT_VERIFIED"
    ELSE IF users[token.userId].organizationId = NoId THEN "NO_ORGANIZATION"
    ELSE "next"

CodeStatus(code) ==
    IF code \in {"EMAIL_NOT_VERIFIED", "NO_ORGANIZATION"} THEN 403 ELSE 401

\* C10: authenticateToken calls next, with req.user describing the token's
\* user, exactly when the token is present, verifies, is unexpired and names
\* an existing, verified user with an organization; otherwise it answers the
\* first failing check of TOKEN_MISSING, INVALID_TOKEN / TOKEN_EXPIRED,
\* USER_NOT_FOUND, EMAIL_NOT_VERIFIED, NO_ORGANIZATION, and the route answers
\* that reply without running its handler.
C10_AuthenticateTokenOrder ==
    \A token \in AuthTokens :
        LET auth == authenticateToken(token)
            code == ExpectedCode(token)
        IN  IF code = "next"
            THEN /\ auth.next
                 /\ auth.user.id = token.userId
                 /\ auth.user.role = users[token.userId].role
                 /\ auth.user.organizationId = users[token.userId].organizationId
            ELSE /\ ~auth.next
                 /\ auth.reply.body.code = code
                 /\ auth.reply.status = CodeStatus(code)
                 /\ \A n \in OrganizationNames :
                       LET out == postOrganizations(token, [name |-> n])
                       IN  /\ out.table = OrgTables
                           /\ out.status = auth.reply.status
                           /\ out.body = auth.reply.body

\* The route has just refused an unexpired token of an unverified user without
\* organization with EMAIL_NOT_VERIFIED, while another user passes all checks.
C10_Witness ==
    /\ res.op = "POST /api/organizations"
    /\ res.status = 403
    /\ res.body = [code |-> "EMAIL_NOT_VERIFIED"]
    /\ res.arg.kind = "signed" /\ res.arg.exp > now
    /\ users[res.arg.userId] # Null
    /\ users[res.arg.userId].organizationId = NoId
    /\ \E token \in AuthTokens : authenticateToken(token).next

(***************************************************************************)
(* addons.controller, utils/razorpay and the gated AI endpoints            *)
(***************************************************************************)
MaxSubscriptions == 2
MaxUsage == 2

\* What these handlers write: OrganizationAddOn rows and Subscription rows.
AddOnTables == [organizationAddOns |-> organizationAddOns, subscriptions |-> subscriptions]

\* createRazorpaySubscription: a placeholder that returns id: `sub_${Date.now()}`
createRazorpaySubscription == [id |-> now, status |-> "created"]

\* prisma.organizationAddOn.upsert by (organizationId, addOnId)
UpsertActive(row) ==
    IF row = Null THEN [isActive |-> TRUE, usageCount |-> 0]
    ELSE [row EXCEPT !.isActive = TRUE]

SeqToSet(seq) == {seq[i] : i \in 1..Len(seq)}

\* POST /api/addons/subscribe
subscribeToAddons(req) ==
    LET userId == ReqUserId(req.user)
        addonIds == req.body.addonIds
        org == UserOrganization(userId)
        \* prisma.addOn.findMany({ where: { id: { in: addonIds } } })
        addons == SeqToSet(addonIds) \cap AddOnNames
        subscription == createRazorpaySubscription
    IN  IF PrologueThrows(userId)
        THEN Out(500, "Failed to create subscription", Null, AddOnTables)
        ELSE IF org = NoId
        THEN Out(404, "Organization not found", Null, AddOnTables)
        ELSE IF Len(addonIds) = 0
        THEN Out(400, "Please select at least one add-on", Null, AddOnTables)
        ELSE IF Cardinality(addons) # Len(addonIds)
        THEN Out(400, "One or more selected add-ons are invalid", Null, AddOnTables)
        ELSE Out(200, "", [status |-> "ACTIVE"],
                 [organizationAddOns |->
                     [organizationAddOns EXCEPT ![org] =
                         [a \in AddOnNames |-> IF a \in addons THEN UpsertActive(@[a]) ELSE @[a]]],
                  subscriptions |->
                     Append(subscriptions, [organizationId |-> org,
                                            razorpaySubscriptionId |-> subscription.id,
                                            status |-> "ACTIVE"])])

\* The x-razorpay-signature header is absent.
NoSignature == ""

\* verifyRazorpayWebhook: a placeholder that returns true for every body and
\* every signature.
verifyRazorpayWebhook(webhookBody, webhookSignature) == TRUE

\* A lookup that ignores the id.
SubscriptionsWithId_NoFilter(id) == 1..Len(subscriptions)

\* where: { razorpaySubscriptionId: id }; an undefined id is no filter at all.
SubscriptionsWithId(id) ==
    {i \in 1..Len(subscriptions) : id = NoId \/ subscriptions[i].razorpaySubscriptionId = id}

\* prisma.subscription.findFirst: the first matching row
FirstSubscriptionWithId(id) ==
    CHOOSE i \in SubscriptionsWithId(id) : \A j \in SubscriptionsWithId(id) : i <= j

\* The switch arm of 'subscription.activated' / 'subscription.cancelled'.
SetSubscriptionState(id, status, isActive) ==
    LET matched == SubscriptionsWithId(id)
        newSubscriptions == [i \in 1..Len(subscriptions) |->
                                IF i \in matched
                                THEN [subscriptions[i] EXCEPT !.status = status]
                                ELSE subscriptions[i]]
        org == subscriptions[FirstSubscriptionWithId(id)].organizationId
    IN  IF matched = {}
        THEN AddOnTables
        ELSE [organizationAddOns |->
                 [organizationAddOns EXCEPT ![org] =
                     [a \in AddOnNames |-> IF @[a] = Null THEN Null
                                           ELSE [@[a] EXCEPT !.isActive = isActive]]],
              subscriptions |-> newSubscriptions]

\* POST /api/addons/razorpay-webhook; payload.subscription is Null when the
\* payload carries no subscription object.
handleRazorpayWebhook(req) ==
    LET webhookBody == req.body
        webhookSignature == req.headers.signature
        event == webhookBody.event
        payload == webhookBody.payload
    IN  IF ~verifyRazorpayWebhook(webhookBody, webhookSignature)
        THEN Out(400, "Invalid webhook signature", Null, AddOnTables)
        ELSE IF event \in {"subscription.activated", "subscription.cancelled", "payment.failed"}
                /\ payload.subscription = Null
        THEN Out(400, "Webhook verification failed", Null, AddOnTables)
        ELSE IF event = "subscription.activated"
        THEN Out(200, "", [status |-> "ok"],
                 SetSubscriptionState(payload.subscription.id, "ACTIVE", TRUE))
        ELSE IF event = "subscription.cancelled"
        THEN Out(200, "", [status |-> "ok"],
                 SetSubscriptionState(payload.subscription.id, "CANCELLED", FALSE))
        ELSE Out(200, "", [status |-> "ok"], AddOnTables)

\* A gate that looks for the OrganizationAddOn row and not at its isActive.
checkAddOn_IgnoresIsActive(addOnName, reqUser) ==
    IF reqUser = Null
    THEN [next |-> FALSE, reply |-> Reply(401, "Authentication required", [code |-> "AUTH_REQUIRED"])]
    ELSE IF /\ reqUser.organizationId \in OrgIds
            /\ organizationAddOns[reqUser.organizationId][addOnName] # Null
    THEN [next |-> TRUE, reply |-> Null]
    ELSE [next |-> FALSE,
          reply |-> Reply(403, "add-on is required for this feature", [code |-> "ADDON_REQUIRED"])]

\* checkAddOn(addOnName): next iff the organization of req.user holds an
\* active OrganizationAddOn of that name.
checkAddOn(addOnName, reqUser) ==
    IF reqUser = Null
    THEN [next |-> FALSE, reply |-> Reply(401, "Authentication required", [code |-> "AUTH_REQUIRED"])]
    ELSE IF /\ reqUser.organizationId \in OrgIds
            /\ organizationAddOns[reqUser.organizationId][addOnName] # Null
            /\ organizationAddOns[reqUser.organizationId][addOnName].isActive
    THEN [next |-> TRUE, reply |-> Null]
    ELSE [next |-> FALSE,
          reply |-> Reply(403, "add-on is required for this feature", [code |-> "ADDON_REQUIRED"])]

\* usageCount: { increment: 1 } on the organization's 'AI Scribe' rows
IncrementUsage(org) ==
    [organizationAddOns EXCEPT ![org]["AI Scribe"] =
        IF @ = Null THEN Null ELSE [@ EXCEPT !.usageCount = @ + 1]]

\* The body shared by the three gated handlers; aiReturns tells whether the
\* AI service call returns or throws.
GatedAiCall(req, data, requiredError, failedError, aiReturns) ==
    LET userId == ReqUserId(req.user)
        org == UserOrganization(userId)
    IN  IF PrologueThrows(userId)
        THEN Out(500, failedError, Null, organizationAddOns)
        ELSE IF org = NoId
        THEN Out(404, "Organization not found", Null, organizationAddOns)
        ELSE IF data = NoId
        THEN Out(400, requiredError, Null, organizationAddOns)
        ELSE IF ~aiReturns
        THEN Out(500, failedError, Null, organizationAddOns)
        ELSE Out(200, "", [text |-> data], IncrementUsage(org))

\* POST /api/ehr/voice-to-text
voiceToText(req, aiReturns) ==
    GatedAiCall(req, req.body.audioData, "Audio data is required",
                "Failed to transcribe audio", aiReturns)

\* POST /api/ehr/ocr
extractTextFromImage(req, aiReturns) ==
    GatedAiCall(req, req.body.imageData, "Image data is required",
                "Failed to extract text from image", aiReturns)

\* POST /api/ehr/ai-summary
generateSummary(req, aiReturns) ==
    GatedAiCall(req, req.body.text, "Text input is required",
                "Failed to generate AI summary", aiReturns)

AiEndpoints == {"voiceToText", "extractTextFromImage", "generateSummary"}

\* The request as the gated handlers and checkAddOn read it: req.user.userId
\* and req.user.organizationId of the same user; data is the audioData,
\* imageData or text of the body.
GatedReq(u, data) ==
    [user |-> [userId |-> u,
               organizationId |-> IF u \in UserIds /\ users[u] # Null
                                  THEN users[u].organizationId ELSE NoId],
     params |-> Null, query |-> Null,
     body |-> [audioData |-> data, imageData |-> data, text |-> data]]

\* router.post('/voice-to-text' | '/ocr' | '/ai-summary', authenticateToken,
\*             checkAddOn('AI Scribe'), handler), from checkAddOn on
postGated(endpoint, req, aiReturns) ==
    LET gate == checkAddOn("AI Scribe", req.user)
    IN  IF ~gate.next
        THEN Out(gate.reply.status, gate.reply.error, gate.reply.body, organizationAddOns)
        ELSE IF endpoint = "voiceToText" THEN voiceToText(req, aiReturns)
        ELSE IF endpoint = "extractTextFromImage" THEN extractTextFromImage(req, aiReturns)
        ELSE generateSummary(req, aiReturns)

WriteAddOnTables(out) ==
    /\ organizationAddOns' = out.table.organizationAddOns
    /\ subscriptions' = out.table.subscriptions

SubscribeToAddons(u, addonIds) ==
    LET out == subscribeToAddons(HandlerReq(u, Null, Null, [addonIds |-> addonIds]))
    IN  /\ out.status = 200 => Len(subscriptions) < MaxSubscriptions
        /\ WriteAddOnTables(out)
        /\ Respond("subscribeToAddons", u, addonIds, out)
        /\ UNCHANGED <<users, organizations, clinics, patients, appointments, ehrRecords,
                       invites, backups, now, inflight>>

WebhookReq(event, subscription, signature) ==
    [headers |-> [signature |-> signature],
     body |-> [event |-> event, payload |-> [subscription |-> subscription]]]

HandleRazorpayWebhook(event, subscription, signature) ==
    LET out == handleRazorpayWebhook(WebhookReq(event, subscription, signature))
    IN  /\ WriteAddOnTables(out)
        /\ Respond("handleRazorpayWebhook", NoId,
                   [event |-> event, subscription |-> subscription, signature |-> signature],
                   out)
        /\ UNCHANGED <<users, organizations, clinics, patients, appointments, ehrRecords,
                       invites, backups, now, inflight>>

UsageCount(org) ==
    IF organizationAddOns[org]["AI Scribe"] = Null THEN 0
    ELSE organizationAddOns[org]["AI Scribe"].usageCount

\* One whole request to a gated AI endpoint.
PostGated(endpoint, u, data, aiReturns) ==
    LET out == postGated(endpoint, GatedReq(u, data), aiReturns)
    IN  /\ out.table # organizationAddOns => \A o \in OrgIds : UsageCount(o) < MaxUsage
        /\ organizationAddOns' = out.table
        /\ Respond(endpoint, u, data, out)
        /\ UNCHANGED <<users, organizations, clinics, patients, appointments, ehrRecords,
                       invites, backups, now, subscriptions, inflight>>

(***************************************************************************)
(* SpecAddOns: members subscribe to add-ons, the payment provider (or      *)
(* anybody else) posts webhook events, members call the AI endpoints.      *)
(***************************************************************************)
AddOnSelections == {<<>>, <<"AI Scribe">>, <<"Analytics">>, <<"AI Scribe", "Nope">>}
AddOnCallers == {1, 4}
WebhookEvents == {"subscription.activated", "subscription.cancelled", "payment.failed", "ping"}

\* payload.subscription: absent, without id, or with the id of some clock reading
WebhookSubscriptions ==
    {Null, [id |-> NoId]} \cup {[id |-> StartOfDay + k] : k \in 0..1}

WebhookSignatures == {NoSignature, "forged", "hmac"}

\* audioData / imageData / text: absent or some content
AiInputs == {NoId, 7}

NextAddOns ==
    \/ \E u \in AddOnCallers, ids \in AddOnSelections : SubscribeToAddons(u, ids)
    \/ \E e \in WebhookEvents, sub \in WebhookSubscriptions, sig \in {NoSignature, "hmac"} :
          HandleRazorpayWebhook(e, sub, sig)
    \/ \E e \in AiEndpoints, u \in AddOnCallers, d \in AiInputs, ok \in BOOLEAN :
          PostGated(e, u, d, ok)
    \/ Tick(1, StartOfDay + 1)

SpecAddOns == InitTenant /\ [][NextAddOns]_vars

\* The organization holds an active 'AI Scribe' OrganizationAddOn.
ScribeActive(org) ==
    /\ organizationAddOns[org]["AI Scribe"] # Null
    /\ organizationAddOns[org]["AI Scribe"].isActive

\* C11: a call of voiceToText, extractTextFromImage or generateSummary by a
\* member of an organization without an active 'AI Scribe' add-on answers 403
\* ADDON_REQUIRED and changes no OrganizationAddOn row; with an active add-on
\* a call with input whose AI service returns answers 200 and raises the
\* usageCount of that organization's 'AI Scribe' row by one and changes
\* nothing else, and any other call changes nothing.
C11_GatedUsageCount ==
    \A e \in AiEndpoints, u \in UserIds, d \in AiInputs, ok \in BOOLEAN :
        (users[u] # Null /\ users[u].organizationId \in organizations)
        => LET org == users[u].organizationId
               out == postGated(e, GatedReq(u, d), ok)
           IN  IF ~ScribeActive(org)
               THEN /\ out.status = 403
                    /\ out.body = [code |-> "ADDON_REQUIRED"]
                    /\ out.table = organizationAddOns
               ELSE IF d # NoId /\ ok
               THEN /\ out.status = 200
                    /\ out.table[org]["AI Scribe"].usageCount = UsageCount(org) + 1
                    /\ \A o \in OrgIds, a \in AddOnNames :
                          (o # org \/ a # "AI Scribe")
                          => out.table[o][a] = organizationAddOns[o][a]
                    /\ out.table[org]["AI Scribe"].isActive
               ELSE /\ out.status # 200
                    /\ out.table = organizationAddOns

\* A gated call has just succeeded for an organization whose counter is now
\* positive, another organization's 'AI Scribe' row still counts zero, and
\* some organization holds the add-on inactive.
C11_Witness ==
    /\ res.op \in AiEndpoints
    /\ res.status = 200
    /\ UsageCount(users[res.caller].organizationId) > 0
    /\ \E o \in OrgIds : /\ o # users[res.caller].organizationId
                         /\ organizationAddOns[o]["AI Scribe"] # Null
                         /\ organizationAddOns[o]["AI Scribe"].usageCount = 0
                         /\ ~organizationAddOns[o]["AI Scribe"].isActive

WebhookReply(event, subscription, signature) ==
    handleRazorpayWebhook(WebhookReq(event, subscription, signature))

\* C12: a webhook request whose signature header is absent or is not the
\* signature of its body is answered with an error status and changes no
\* Subscription and no OrganizationAddOn.
C12_UnsignedWebhookRejected ==
    \A e \in WebhookEvents, sub \in WebhookSubscriptions, sig \in {NoSignature, "forged"} :
        LET out == WebhookReply(e, sub, sig)
        IN  out.status >= 400 /\ out.table = AddOnTables

\* The organizations that hold a Subscription with razorpaySubscriptionId id.
OwnersOf(id) ==
    {subscriptions[i].organizationId :
        i \in {j \in 1..Len(subscriptions) : subscriptions[j].razorpaySubscriptionId = id}}

EventStatus(event) == IF event = "subscription.activated" THEN "ACTIVE" ELSE "CANCELLED"

CancelTimes == {StartOfDay + 15, StartOfDay + 30}
CancelStatuses == {"CONFIRMED", "COMPLETED"}
CancelCallers == {1, 2, 3}

NextCancel ==
    \/ \E t \in CancelTimes :
          CreateAppointment(1, AppointmentBody(1, 2, 1, t, NoDuration, NoStatus))
    \/ \E id \in AppointmentIds, st \in CancelStatuses :
          UpdateAppointment(1, id, AppointmentBody(NoId, NoId, NoId, NoDate, NoDuration, st))
    \/ \E u \in CancelCallers, id \in AppointmentIds : DeleteAppointment(u, id)
    \/ Tick(15, StartOfDay + 30)

SpecCancel == InitAppointments /\ [][NextCancel]_vars

CancelReply(u, id) == deleteAppointment(HandlerReq(u, [id |-> id], Null, Null))

\* The appointment exists in the caller's organization and, for a DOCTOR, is
\* the caller's own.
MayCancel(u, id) ==
    /\ users[u] # Null /\ users[u].organizationId \in organizations
    /\ appointments[id] # Null
    /\ clinics[appointments[id].clinicId].organizationId = users[u].organizationId
    /\ (users[u].role = "DOCTOR" => appointments[id].doctorId = u)

\* C14: deleteAppointment on an appointment the caller may act on answers 400
\* and leaves the table as it is when the appointment's start is not after
\* now or its status is COMPLETED or CANCELLED; otherwise it answers 200, sets
\* the status to CANCELLED, changes no other field and keeps the row.
C14_CancelGuards ==
    \A u \in UserIds, id \in AppointmentIds :
        MayCancel(u, id)
        => LET out == CancelReply(u, id)
               a == appointments[id]
           IN  IF a.appointmentDate <= now \/ a.status \in {"COMPLETED", "CANCELLED"}
               THEN out.status = 400 /\ out.table = appointments
               ELSE /\ out.status = 200
                    /\ out.table[id] # Null
                    /\ out.table[id] = [patientId |-> a.patientId, doctorId |-> a.doctorId,
                                        clinicId |-> a.clinicId,
                                        appointmentDate |-> a.appointmentDate,
                                        duration |-> a.duration, status |-> "CANCELLED"]
                    /\ \A other \in AppointmentIds \ {id} : out.table[other] = appointments[other]

\* A cancellation of a COMPLETED appointment whose start is still ahead has
\* just been refused, and another appointment stands CANCELLED in the table.
C14_Witness ==
    /\ res.op = "deleteAppointment"
    /\ res.status = 400
    /\ appointments[res.arg] # Null
    /\ appointments[res.arg].status = "COMPLETED"
    /\ appointments[res.arg].appointmentDate > now
    /\ \E id \in AppointmentIds : appointments[id] # Null /\ appointments[id].status = "CANCELLED"

(***************************************************************************)
(* deleteClinic and deletePatient                                          *)
(***************************************************************************)
\* DELETE /api/clinics/:id
deleteClinic(req) ==
    LET userId == ReqUserId(req.user)
        id == req.params.id
        org == UserOrganization(userId)
        \* _count: { patients, appointments } of the clinic
        patientCount == Cardinality({p \in PatientIds : patients[p] # Null
                                                       /\ patients[p].clinicId = id})
        appointmentCount == Cardinality({a \in AppointmentIds : appointments[a] # Null
                                                               /\ appointments[a].clinicId = id})
    IN  IF PrologueThrows(userId)
        THEN Out(400, "Cannot delete clinic with active data", Null, clinics)
        ELSE IF org = NoId
        THEN Out(404, "Organization not found", Null, clinics)
        ELSE IF ~ClinicInOrg(id, org)
        THEN Out(404, "Clinic not found", Null, clinics)
        ELSE IF patientCount > 0
        THEN Out(400, "Cannot delete clinic with existing patients", Null, clinics)
        ELSE IF appointmentCount > 0
        THEN Out(400, "Cannot delete clinic with existing appointments", Null, clinics)
        ELSE Out(200, "", Null, [clinics EXCEPT ![id] = Null])

\* What deletePatient writes.
PatientTables == [patients |-> patients, appointments |-> appointments,
                  ehrRecords |-> ehrRecords]

\* The referential action of the Appointment and EHRRecord relations to
\* Patient, which the schema fixes: the delete throws while rows refer to the
\* patient, or takes them along.
OnDeleteActions == {"Restrict", "Cascade"}

\* A lookup of active appointments that comes back empty.
ActiveAppointments_None(patientId) == {}

\* appointments: { where: { appointmentDate: { gte: new Date() },
\*                          status: { in: ['SCHEDULED', 'CONFIRMED'] } } }
ActiveAppointments(patientId) ==
    {a \in AppointmentIds : /\ appointments[a] # Null
                            /\ appointments[a].patientId = patientId
                            /\ appointments[a].appointmentDate >= now
                            /\ appointments[a].status \in {"SCHEDULED", "CONFIRMED"}}

\* DELETE /api/patients/:id
deletePatient(req, onDelete) ==
    LET userId == ReqUserId(req.user)
        id == req.params.id
        org == UserOrganization(userId)
        references ==
            \/ \E a \in AppointmentIds : appointments[a] # Null /\ appointments[a].patientId = id
            \/ \E e \in EhrIds : ehrRecords[e] # Null /\ ehrRecords[e].patientId = id
    IN  IF PrologueThrows(userId)
        THEN Out(400, "Cannot delete patient with active appointments", Null, PatientTables)
        ELSE IF org = NoId
        THEN Out(404, "Organization not found", Null, PatientTables)
        ELSE IF ~PatientInOrg(id, org)
        THEN Out(404, "Patient not found", Null, PatientTables)
        ELSE IF ActiveAppointments(id) # {}
        THEN Out(400, "Cannot delete patient with active appointments. Please cancel appointments first.",
                 Null, PatientTables)
        ELSE IF references /\ onDelete = "Restrict"
        THEN Out(400, "Cannot delete patient with active appointments", Null, PatientTables)
        ELSE Out(200, "", Null,
                 [patients |-> [patients EXCEPT ![id] = Null],
                  appointments |-> [a \in AppointmentIds |->
                                      IF appointments[a] # Null /\ appointments[a].patientId = id
                                      THEN Null ELSE appointments[a]],
                  ehrRecords |-> [e \in EhrIds |->
                                    IF ehrRecords[e] # Null /\ ehrRecords[e].patientId = id
                                    THEN Null ELSE ehrRecords[e]]])

DeleteClinic(u, id) ==
    LET out == deleteClinic(HandlerReq(u, [id |-> id], Null, Null))
    IN  /\ clinics' = out.table
        /\ Respond("deleteClinic", u, id, out)
        /\ UNCHANGED <<users, organizations, patients, appointments, ehrRecords, invites,
                       backups, now, organizationAddOns, subscriptions, inflight>>

DeletePatient(u, id, onDelete) ==
    LET out == deletePatient(HandlerReq(u, [id |-> id], Null, Null), onDelete)
    IN  /\ patients' = out.table.patients
        /\ appointments' = out.table.appointments
        /\ ehrRecords' = out.table.ehrRecords
        /\ Respond("deletePatient", u, id, out)
        /\ UNCHANGED <<users, organizations, clinics, invites, backups, now,
                       organizationAddOns, subscriptions, inflight>>

(***************************************************************************)
(* SpecDelete: an administrator registers and moves patients, books and    *)
(* cancels appointments, and deletes patients and clinics.                 *)
(***************************************************************************)
DeletePhones == {PhoneA, PhoneB}
DeleteClinics == {1, 3}
DeleteTime == StartOfDay + 15

NextDelete ==
    \/ \E phone \in DeletePhones, c \in DeleteClinics : CreatePatient(1, phone, c)
    \/ \E id \in PatientIds, c \in DeleteClinics : UpdatePatient(1, id, NoPhone, c)
    \/ \E p \in PatientIds, c \in DeleteClinics :
          CreateAppointment(1, AppointmentBody(p, 2, c, DeleteTime, NoDuration, NoStatus))
    \/ \E id \in AppointmentIds : DeleteAppointment(1, id)
    \/ \E id \in PatientIds, onDelete \in OnDeleteActions : DeletePatient(1, id, onDelete)
    \/ \E id \in DeleteClinics : DeleteClinic(1, id)
    \/ Tick(15, StartOfDay + 30)

SpecDelete == InitTenant /\ [][NextDelete]_vars

\* A member of an organization.
Member(u) == users[u] # Null /\ users[u].organizationId \in organizations

\* The patient has a SCHEDULED or CONFIRMED appointment that starts after now.
HasFutureAppointment(p) ==
    \E a \in AppointmentIds : /\ appointments[a] # Null
                              /\ appointments[a].patientId = p
                              /\ appointments[a].appointmentDate > now
                              /\ appointments[a].status \in {"SCHEDULED", "CONFIRMED"}

ClinicDeleteRefused ==
    \A u \in UserIds, c \in ClinicIds :
        (/\ Member(u) /\ clinics[c] # Null
         /\ clinics[c].organizationId = users[u].organizationId
         /\ \E p \in PatientIds : patients[p] # Null /\ patients[p].clinicId = c)
        => LET out == deleteClinic(HandlerReq(u, [id |-> c], Null, Null))
           IN  out.status = 400 /\ out.table = clinics

PatientDeleteRefused ==
    \A u \in UserIds, p \in PatientIds, onDelete \in OnDeleteActions :
        (/\ Member(u) /\ patients[p] # Null /\ clinics[patients[p].clinicId] # Null
         /\ clinics[patients[p].clinicId].organizationId = users[u].organizationId
         /\ HasFutureAppointment(p))
        => LET out == deletePatient(HandlerReq(u, [id |-> p], Null, Null), onDelete)
           IN  out.status = 400 /\ out.table = PatientTables

NoDanglingReference ==
    /\ \A p \in PatientIds : patients[p] # Null => clinics[patients[p].clinicId] # Null
    /\ \A a \in AppointmentIds :
          (/\ appointments[a] # Null
           /\ appointments[a].appointmentDate > now
           /\ appointments[a].status \in {"SCHEDULED", "CONFIRMED"})
          => patients[appointments[a].patientId] # Null

MaxBatch == 2

\* One element of req.body.patients: hasName tells whether name is given,
\* phone and clinicId may be absent, createThrows tells whether
\* prisma.patient.create rejects the item's other fields.
ImportItem(hasName, phone, clinicId, createThrows) ==
    [hasName |-> hasName, phone |-> phone, clinicId |-> clinicId,
     createThrows |-> createThrows]

\* The smallest free id of a patients table (NoId when it is full).
FreePatientId(table) ==
    IF \E i \in PatientIds : table[i] = Null
    THEN CHOOSE i \in PatientIds : table[i] = Null /\ \A j \in PatientIds : table[j] = Null => i <= j
    ELSE NoId

\* A duplicate lookup that only sees the patients of the item's clinic.
ImportDuplicates_SameClinic(table, item, org) ==
    {p \in PatientIds : /\ table[p] # Null
                        /\ table[p].phone = item.phone
                        /\ table[p].clinicId = item.clinicId}

\* prisma.patient.findFirst({ where: { phone, clinic: { organizationId } } })
ImportDuplicates(table, item, org) ==
    {p \in PatientIds : /\ table[p] # Null
                        /\ table[p].phone = item.phone
                        /\ ClinicOrg(table[p].clinicId) = org}

\* The body of the for loop for one item: the list the item is pushed to.
ImportOutcome(table, item, org) ==
    IF ~item.hasName \/ item.phone = NoPhone \/ item.clinicId = NoId THEN "failed"
    ELSE IF ~phoneRegexTest(item.phone) THEN "failed"
    ELSE IF ImportDuplicates(table, item, org) # {} THEN "duplicates"
    ELSE IF ~ClinicInOrg(item.clinicId, org) THEN "failed"
    ELSE IF item.createThrows THEN "failed"
    ELSE "successful"

\* for (const patientData of patients) { ... }: the table and the list each
\* item was pushed to; overflow tells that a row was to be created in a full
\* table, which the bounded tables of the model exclude.
RECURSIVE ImportLoop(_, _, _, _, _)
ImportLoop(items, org, table, pushed, overflow) ==
    IF items = <<>>
    THEN [table |-> table, pushed |-> pushed, overflow |-> overflow]
    ELSE LET item == Head(items)
             outcome == ImportOutcome(table, item, org)
             newId == FreePatientId(table)
         IN  IF outcome = "successful" /\ newId # NoId
             THEN ImportLoop(Tail(items), org,
                             [table EXCEPT ![newId] = [phone |-> item.phone,
                                                       clinicId |-> item.clinicId]],
                             Append(pushed, outcome), overflow)
             ELSE ImportLoop(Tail(items), org, table, Append(pushed, outcome),
                             overflow \/ outcome = "successful")

CountOf(pushed, list) == Cardinality({i \in 1..Len(pushed) : pushed[i] = list})

\* POST /api/patients/bulk-import
bulkImportPatients(req) ==
    LET userId == ReqUserId(req.user)
        items == req.body.patients
        org == UserOrganization(userId)
        loop == ImportLoop(items, org, patients, <<>>, FALSE)
    IN  IF PrologueThrows(userId)
        THEN Out(500, "Failed to import patients", Null, patients)
        ELSE IF org = NoId
        THEN Out(404, "Organization not found", Null, patients)
        ELSE IF Len(items) = 0
        THEN Out(400, "No patients data provided", Null, patients)
        ELSE Out(200, "",
                 [total |-> Len(items),
                  successful |-> CountOf(loop.pushed, "successful"),
                  failed |-> CountOf(loop.pushed, "failed"),
                  duplicates |-> CountOf(loop.pushed, "duplicates"),
                  pushed |-> loop.pushed,
                  overflow |-> loop.overflow],
                 loop.table)

BulkImportPatients(u, items) ==
    LET out == bulkImportPatients(HandlerReq(u, Null, Null, [patients |-> items]))
    IN  /\ out.status = 200 => ~out.body.overflow
        /\ patients' = out.table
        /\ Respond("bulkImportPatients", u, items, out)
        /\ UNCHANGED <<users, organizations, clinics, appointments, ehrRecords, invites,
                       backups, now, organizationAddOns, subscriptions, inflight>>

(***************************************************************************)
(* SpecImport: members register patients one by one and in batches.        *)
(***************************************************************************)
ImportItems ==
    { ImportItem(TRUE, PhoneA, 1, FALSE),
      ImportItem(TRUE, PhoneB, 3, FALSE),
      ImportItem(FALSE, PhoneA, 1, FALSE),
      ImportItem(TRUE, PhoneShort, 1, FALSE),
      ImportItem(TRUE, PhoneA, 2, FALSE),
      ImportItem(TRUE, PhoneB, 1, TRUE) }

RECURSIVE SeqsUpTo(_, _)
SeqsUpTo(S, n) ==
    IF n = 0 THEN {<<>>}
    ELSE LET shorter == SeqsUpTo(S, n - 1)
         IN  shorter \cup {Append(q, x) : q \in shorter, x \in S}

ImportBatches == SeqsUpTo(ImportItems, MaxBatch)
ImportCallers == {1, 4}

NextImport ==
    \/ \E u \in ImportCallers, phone \in {PhoneA}, c \in {1, 2} : CreatePatient(u, phone, c)
    \/ \E u \in ImportCallers, items \in ImportBatches : BulkImportPatients(u, items)

SpecImport == InitTenant /\ [][NextImport]_vars

ImportReply(u, items) == bulkImportPatients(HandlerReq(u, Null, Null, [patients |-> items]))

\* The phones item i of the batch collides with: those of the patients of the
\* caller's organization and those of the earlier items that were imported.
KnownPhones(u, items, pushed, i) ==
    {patients[p].phone : p \in {x \in PatientIds : /\ patients[x] # Null
                                /\ clinics[patients[x].clinicId] # Null
                                /\ clinics[patients[x].clinicId].organizationId
                                      = users[u].organizationId}}
        \cup {items[j].phone : j \in {x \in 1..(i - 1) : pushed[x] = "successful"}}

HasRequiredFields(item) == item.hasName /\ item.phone # NoPhone /\ item.clinicId # NoId

\* Every item is pushed to one list and the three counts add up to the total.
EveryItemAccounted(items, out) ==
    /\ out.status = 200
    /\ out.body.total = Len(items)
    /\ Len(out.body.pushed) = Len(items)
    /\ \A i \in 1..Len(items) : out.body.pushed[i] \in {"successful", "failed", "duplicates"}
    /\ out.body.successful + out.body.failed + out.body.duplicates = out.body.total
    /\ out.body.successful = Cardinality({p \in PatientIds : patients[p] = Null
                                                             /\ out.table[p] # Null})
    /\ \A p \in PatientIds : patients[p] # Null => out.table[p] = patients[p]

\* C16 as stated: every item is accounted for, and every item whose phone is
\* that of a patient of the organization or of an earlier imported item is
\* reported as duplicate.
C16_Original_KnownPhoneIsDuplicate ==
    \A u \in UserIds, items \in ImportBatches \ {<<>>} :
        LET out == ImportReply(u, items)
        IN  (Member(u) /\ ~out.body.overflow)
            => /\ EveryItemAccounted(items, out)
               /\ \A i \in 1..Len(items) :
                     items[i].phone \in KnownPhones(u, items, out.body.pushed, i)
                     => out.body.pushed[i] = "duplicates"

\* C16: bulkImportPatients answers 200 for every non-empty batch, pushes every
\* item to exactly one of successful / failed / duplicates whatever the earlier
\* items were, and the counts add up to the total; an item that carries name,
\* phone and clinicId and whose phone is that of a patient of the organization
\* or of an earlier imported item is pushed to duplicates, an item without a
\* required field is pushed to failed; an item is imported exactly when it has
\* its fields, a well-formed phone that is not known, a clinic of the
\* organization and a create that does not throw, and exactly the imported
\* items are added to the table.
C16_ItemsProcessedIndependently ==
    \A u \in UserIds, items \in ImportBatches \ {<<>>} :
        LET out == ImportReply(u, items)
        IN  (Member(u) /\ ~out.body.overflow)
            => /\ EveryItemAccounted(items, out)
               /\ \A i \in 1..Len(items) :
                     LET item == items[i]
                         known == item.phone \in KnownPhones(u, items, out.body.pushed, i)
                     IN  /\ ~HasRequiredFields(item) => out.body.pushed[i] = "failed"
                         /\ (HasRequiredFields(item) /\ known)
                               => out.body.pushed[i] = "duplicates"
                         /\ out.body.pushed[i] = "successful"
                               <=> /\ HasRequiredFields(item)
                                   /\ item.phone \in {PhoneA, PhoneB}
                                   /\ ~known
                                   /\ clinics[item.clinicId] # Null
                                   /\ clinics[item.clinicId].organizationId
                                         = users[u].organizationId
                                   /\ ~item.createThrows
                         /\ out.body.pushed[i] = "successful"
                               => \E p \in PatientIds :
                                     /\ patients[p] = Null
                                     /\ out.table[p] = [phone |-> item.phone,
                                                        clinicId |-> item.clinicId]

\* A batch has just been imported whose first item was a duplicate of an
\* existing patient and whose second item was created.
C16_Witness ==
    /\ res.op = "bulkImportPatients"
    /\ res.status = 200
    /\ res.body.pushed = <<"duplicates", "successful">>
    /\ \E p \in PatientIds : patients[p] # Null /\ patients[p].phone = res.arg[1].phone
    /\ \E p \in PatientIds : /\ patients[p] # Null
                             /\ patients[p].phone = res.arg[2].phone
                             /\ patients[p].clinicId = res.arg[2].clinicId

(***************************************************************************)
(* Requests in flight.  A handler is a sequence of awaited store calls;    *)
(* between two of them the handlers of other requests may run.  A request  *)
(* occupies a slot of inflight with the handler's local variables and the  *)
(* store call it performs next (pc); an answered request stays in its slot *)
(* with pc = "done" and the status it was answered with.                   *)
(***************************************************************************)
FreeSlot(r) == inflight[r] = Null

Running(r, op, pc) ==
    /\ inflight[r] # Null
    /\ inflight[r].op = op
    /\ inflight[r].pc = pc

\* The request of slot r moves on to its next store call.
Goto(r, pc) == inflight' = [inflight EXCEPT ![r].pc = pc]

\* res.status(status).json(...) of the request of slot r.
Answer(r, request, status, error) ==
    /\ inflight' = [inflight EXCEPT ![r] = [request EXCEPT !.pc = "done",
                                                            !.status = status,
                                                            !.error = error]]
    /\ res' = [op |-> request.op, caller |-> request.userId, arg |-> request.arg,
               status |-> status, error |-> error, body |-> Null]

Quiescent == \A r \in RequestIds : inflight[r] = Null \/ inflight[r].pc = "done"

\* --- joinOrganization, store call by store call -------------------------
\* prisma.invite.findUnique and the isUsed / expiresAt tests
JoinFindInvite(r, u, token) ==
    LET request == [op |-> "joinOrganization", pc |-> "findUser", userId |-> u,
                    arg |-> token, invite |-> invites[token], status |-> 0, error |-> ""]
    IN  /\ FreeSlot(r)
        /\ IF invites[token] = Null
           THEN Answer(r, request, 400, "Invalid invitation token")
           ELSE IF invites[token].isUsed
           THEN Answer(r, request, 400, "Invitation has already been used")
           ELSE IF InviteExpired(invites[token])
           THEN Answer(r, request, 400, "Invitation has expired")
           ELSE inflight' = [inflight EXCEPT ![r] = request] /\ UNCHANGED res
        /\ UNCHANGED <<users, organizations, clinics, patients, appointments, ehrRecords,
                       invites, backups, now, organizationAddOns, subscriptions>>

\* prisma.user.findUnique and the user.organizationId test
JoinFindUser(r) ==
    /\ Running(r, "joinOrganization", "findUser")
    /\ IF users[inflight[r].userId].organizationId # NoId
       THEN Answer(r, inflight[r], 400, "User already belongs to an organization")
       ELSE Goto(r, "updateUser") /\ UNCHANGED res
    /\ UNCHANGED <<users, organizations, clinics, patients, appointments, ehrRecords,
                   invites, backups, now, organizationAddOns, subscriptions>>

\* prisma.user.update with the organizationId and role of the invite read before
JoinUpdateUser(r) ==
    /\ Running(r, "joinOrganization", "updateUser")
    /\ users' = [users EXCEPT ![inflight[r].userId].organizationId =
                                  inflight[r].invite.organizationId,
                              ![inflight[r].userId].role = inflight[r].invite.role]
    /\ Goto(r, "updateInvite")
    /\ UNCHANGED <<organizations, clinics, patients, appointments, ehrRecords, invites,
                   backups, now, res, organizationAddOns, subscriptions>>

\* prisma.invite.update({ data: { isUsed: true } }) and the answer
JoinUpdateInvite(r) ==
    /\ Running(r, "joinOrganization", "updateInvite")
    /\ invites' = [invites EXCEPT ![inflight[r].arg].isUsed = TRUE]
    /\ Answer(r, inflight[r], 200, "")
    /\ UNCHANGED <<users, organizations, clinics, patients, appointments, ehrRecords,
                   backups, now, organizationAddOns, subscriptions>>

\* --- removeUserFromOrganization, store call by store call ----------------
\* prisma.user.findUnique of the caller with its organization
RemoveFindAdmin(r, u, target) ==
    LET request == [op |-> "removeUserFromOrganization", pc |-> "findTarget", userId |-> u,
                    arg |-> target, organizationId |-> UserOrganization(u),
                    targetRole |-> NoRole, status |-> 0, error |-> ""]
    IN  /\ FreeSlot(r)
        /\ IF UserOrganization(u) = NoId
           THEN Answer(r, request, 404, "Organization not found")
           ELSE inflight' = [inflight EXCEPT ![r] = request] /\ UNCHANGED res
        /\ UNCHANGED <<users, organizations, clinics, patients, appointments, ehrRecords,
                       invites, backups, now, organizationAddOns, subscriptions>>

\* prisma.user.findFirst({ where: { id: targetUserId, organizationId } })
RemoveFindTarget(r) ==
    /\ Running(r, "removeUserFromOrganization", "findTarget")
    /\ LET target == inflight[r].arg
       IN  IF users[target] = Null \/ users[target].organizationId # inflight[r].organizationId
           THEN Answer(r, inflight[r], 404, "User not found in organization")
           ELSE /\ inflight' = [inflight EXCEPT
                                  ![r].targetRole = users[target].role,
                                  ![r].pc = IF users[target].role = "ADMIN"
                                            THEN "count" ELSE "update"]
                /\ UNCHANGED res
    /\ UNCHANGED <<users, organizations, clinics, patients, appointments, ehrRecords,
                   invites, backups, now, organizationAddOns, subscriptions>>

\* prisma.user.count({ where: { organizationId, role: 'ADMIN' } })
RemoveCount(r) ==
    /\ Running(r, "removeUserFromOrganization", "count")
    /\ IF AdminCount(inflight[r].organizationId) <= 1
       THEN Answer(r, inflight[r], 400, "Cannot remove the last admin from organization")
       ELSE Goto(r, "update") /\ UNCHANGED res
    /\ UNCHANGED <<users, organizations, clinics, patients, appointments, ehrRecords,
                   invites, backups, now, organizationAddOns, subscriptions>>

\* prisma.user.update({ data: { organizationId: null } }) and the answer
RemoveUpdate(r) ==
    /\ Running(r, "removeUserFromOrganization", "update")
    /\ users' = [users EXCEPT ![inflight[r].arg].organizationId = NoId]
    /\ Answer(r, inflight[r], 200, "")
    /\ UNCHANGED <<organizations, clinics, patients, appointments, ehrRecords, invites,
                   backups, now, organizationAddOns, subscriptions>>

\* --- createOrganization, store call by store call ------------------------
\* prisma.user.findUnique and the existingUser.organizationId test
CreateFindUser(r, u) ==
    LET request == [op |-> "createOrganization", pc |-> "createOrganization", userId |-> u,
                    arg |-> NoId, status |-> 0, error |-> ""]
    IN  /\ FreeSlot(r)
        /\ IF users[u].organizationId # NoId
           THEN Answer(r, request, 400, "User already belongs to an organization")
           ELSE inflight' = [inflight EXCEPT ![r] = request] /\ UNCHANGED res
        /\ UNCHANGED <<users, organizations, clinics, patients, appointments, ehrRecords,
                       invites, backups, now, organizationAddOns, subscriptions>>

\* prisma.organization.create
CreateInsertOrganization(r) ==
    /\ Running(r, "createOrganization", "createOrganization")
    /\ FreeOrgId # NoId
    /\ organizations' = organizations \cup {FreeOrgId}
    /\ inflight' = [inflight EXCEPT ![r].arg = FreeOrgId, ![r].pc = "updateUser"]
    /\ UNCHANGED <<users, clinics, patients, appointments, ehrRecords, invites, backups,
                   now, res, organizationAddOns, subscriptions>>

\* prisma.user.update({ data: { organizationId, role: 'ADMIN' } }) and the answer
CreateUpdateUser(r) ==
    /\ Running(r, "createOrganization", "updateUser")
    /\ users' = [users EXCEPT ![inflight[r].userId].organizationId = inflight[r].arg,
                              ![inflight[r].userId].role = "ADMIN"]
    /\ Answer(r, inflight[r], 201, "")
    /\ UNCHANGED <<organizations, clinics, patients, appointments, ehrRecords, invites,
                   backups, now, organizationAddOns, subscriptions>>

(***************************************************************************)
(* Concurrent organization requests: an ADMIN creates an organization and  *)
(* invites, then joinOrganization, removeUserFromOrganization and          *)
(* createOrganization requests run store call by store call, interleaved.  *)
(***************************************************************************)
RaceJoiners == {2, 3}
RaceRemovers == {1, 2}
RaceCreators == {3}

NextOrgRaces ==
    \/ CreateOrganization(1)
    \/ \E role \in {NoRole, "ADMIN"} : InviteUser(1, 101, role, TRUE)
    \/ \E t \in InviteIds : JoinOrganization(2, t)
    \/ \E r \in RequestIds, u \in RaceJoiners, t \in InviteIds : JoinFindInvite(r, u, t)
    \/ \E r \in RequestIds : JoinFindUser(r)
    \/ \E r \in RequestIds : JoinUpdateUser(r)
    \/ \E r \in RequestIds : JoinUpdateInvite(r)
    \/ \E r \in RequestIds, u \in RaceRemovers, t \in RaceRemovers : RemoveFindAdmin(r, u, t)
    \/ \E r \in RequestIds : RemoveFindTarget(r)
    \/ \E r \in RequestIds : RemoveCount(r)
    \/ \E r \in RequestIds : RemoveUpdate(r)
    \/ \E r \in RequestIds, u \in RaceCreators : CreateFindUser(r, u)
    \/ \E r \in RequestIds : CreateInsertOrganization(r)
    \/ \E r \in RequestIds : CreateUpdateUser(r)

SpecOrgRaces == InitOrganizations /\ [][NextOrgRaces]_vars

HasAdmin(org) == \E u \in UserIds : /\ users[u] # Null
                                    /\ users[u].organizationId = org
                                    /\ users[u].role = "ADMIN"

\* C17: once every request has been answered, every created organization has
\* at least one member with role ADMIN, whatever the interleaving of the
\* createOrganization, joinOrganization and removeUserFromOrganization requests.
C17_EveryOrganizationHasAdmin ==
    Quiescent => \A org \in organizations : HasAdmin(org)

\* The joinOrganization requests answered 200 for the invite of one token.
SuccessfulJoins(token) ==
    {r \in RequestIds : /\ Running(r, "joinOrganization", "done")
                        /\ inflight[r].arg = token
                        /\ inflight[r].status = 200}

\* C18: for every invite at most one user is ever answered with success by
\* joinOrganization, whatever the interleaving of the concurrent join requests
\* of different users presenting the same token.
C18_InviteJoinedOnce ==
    \A token \in InviteIds :
        Cardinality({inflight[r].userId : r \in SuccessfulJoins(token)}) <= 1

(***************************************************************************)
(* createAppointment, store call by store call.                            *)
(***************************************************************************)
\* duration || 30
BookedDuration(body) == IF body.duration # NoDuration THEN body.duration ELSE DefaultDuration

\* The data of prisma.appointment.create
BookedRow(body) ==
    [patientId |-> body.patientId, doctorId |-> body.doctorId, clinicId |-> body.clinicId,
     appointmentDate |-> body.appointmentDate, duration |-> BookedDuration(body),
     status |-> "SCHEDULED"]

\* An insert that looks the conflict up again in the same store call.
InsertAppointment_Rechecked(request) ==
    IF ConflictingAppointments(request.body.doctorId, request.body.appointmentDate,
                               BookedDuration(request.body), NoId) # {}
    THEN Out(400, "Doctor has a conflicting appointment at this time", Null, appointments)
    ELSE Out(201, "", [id |-> FreeId(appointments)],
             [appointments EXCEPT ![FreeId(appointments)] = BookedRow(request.body)])

\* prisma.appointment.create: the row is inserted whatever the table holds by now.
InsertAppointment(request) ==
    Out(201, "", [id |-> FreeId(appointments)],
        [appointments EXCEPT ![FreeId(appointments)] = BookedRow(request.body)])

\* prisma.user.findUnique of the caller with its organization
BookFindUser(r, u, body) ==
    LET request == [op |-> "createAppointment", pc |-> "findPatient", userId |-> u,
                    arg |-> NoId, body |-> body, organizationId |-> UserOrganization(u),
                    status |-> 0, error |-> ""]
    IN  /\ FreeSlot(r)
        /\ IF UserOrganization(u) = NoId
           THEN Answer(r, request, 404, "Organization not found")
           ELSE inflight' = [inflight EXCEPT ![r] = request] /\ UNCHANGED res
        /\ UNCHANGED <<users, organizations, clinics, patients, appointments, ehrRecords,
                       invites, backups, now, organizationAddOns, subscriptions>>

\* prisma.patient.findFirst
BookFindPatient(r) ==
    /\ Running(r, "createAppointment", "findPatient")
    /\ IF ~PatientInOrg(inflight[r].body.patientId, inflight[r].organizationId)
       THEN Answer(r, inflight[r], 400, "Invalid patient selected")
       ELSE Goto(r, "findDoctor") /\ UNCHANGED res
    /\ UNCHANGED <<users, organizations, clinics, patients, appointments, ehrRecords,
                   invites, backups, now, organizationAddOns, subscriptions>>

\* prisma.user.findFirst of the doctor
BookFindDoctor(r) ==
    /\ Running(r, "createAppointment", "findDoctor")
    /\ IF ~DoctorInOrg(inflight[r].body.doctorId, inflight[r].organizationId)
       THEN Answer(r, inflight[r], 400, "Invalid doctor selected")
       ELSE Goto(r, "findClinic") /\ UNCHANGED res
    /\ UNCHANGED <<users, organizations, clinics, patients, appointments, ehrRecords,
                   invites, backups, now, organizationAddOns, subscriptions>>

\* prisma.clinic.findFirst and the future-date test that follows it
BookFindClinic(r) ==
    /\ Running(r, "createAppointment", "findClinic")
    /\ IF ~ClinicInOrg(inflight[r].body.clinicId, inflight[r].organizationId)
       THEN Answer(r, inflight[r], 400, "Invalid clinic selected")
       ELSE IF inflight[r].body.appointmentDate <= now
       THEN Answer(r, inflight[r], 400,
                   "Appointment must be scheduled for a future date and time")
       ELSE Goto(r, "findConflict") /\ UNCHANGED res
    /\ UNCHANGED <<users, organizations, clinics, patients, appointments, ehrRecords,
                   invites, backups, now, organizationAddOns, subscriptions>>

\* prisma.appointment.findFirst of a conflicting appointment
BookFindConflict(r) ==
    /\ Running(r, "createAppointment", "findConflict")
    /\ IF ConflictingAppointments(inflight[r].body.doctorId,
                                  inflight[r].body.appointmentDate,
                                  BookedDuration(inflight[r].body), NoId) # {}
       THEN Answer(r, inflight[r], 400, "Doctor has a conflicting appointment at this time")
       ELSE Goto(r, "create") /\ UNCHANGED res
    /\ UNCHANGED <<users, organizations, clinics, patients, appointments, ehrRecords,
                   invites, backups, now, organizationAddOns, subscriptions>>

\* prisma.appointment.create and the answer
BookCreate(r) ==
    LET out == InsertAppointment(inflight[r])
    IN  /\ Running(r, "createAppointment", "create")
        /\ FreeId(appointments) # NoId
        /\ appointments' = out.table
        /\ Answer(r, [inflight[r] EXCEPT !.arg = IF out.status = 201
                                                 THEN out.body.id ELSE NoId],
                  out.status, out.error)
        /\ UNCHANGED <<users, organizations, clinics, patients, ehrRecords, invites,
                       backups, now, organizationAddOns, subscriptions>>

BookCallers == {1, 4}
BookDoctors == {2, 3}
BookTimes == {StartOfDay, StartOfDay + 60, StartOfDay + 75}
BookBodies ==
    {AppointmentBody(1, d, 1, t, NoDuration, NoStatus) : d \in BookDoctors, t \in BookTimes}

NextBooking ==
    \/ \E r \in RequestIds, u \in BookCallers, body \in BookBodies : BookFindUser(r, u, body)
    \/ \E r \in RequestIds : BookFindPatient(r)
    \/ \E r \in RequestIds : BookFindDoctor(r)
    \/ \E r \in RequestIds : BookFindClinic(r)
    \/ \E r \in RequestIds : BookFindConflict(r)
    \/ \E r \in RequestIds : BookCreate(r)
    \/ CreateAppointment(1, AppointmentBody(1, 2, 1, StartOfDay + 60, NoDuration, NoStatus))

SpecBooking == InitAppointments /\ [][NextBooking]_vars

\* The request of slot r has passed the conflict lookup and creates next.
PassedLookup(r) == Running(r, "createAppointment", "create")

\* C19: the conflict lookup and the insert of createAppointment are separate
\* store calls: a request that has passed the conflict lookup inserts its
\* appointment as SCHEDULED and is answered 201 whatever has been inserted since
\* the lookup, so two requests for the same doctor and slot that both pass the
\* lookup before either inserts are both created.
C19_InsertAfterLookupAlwaysCreates ==
    [][\A r \in RequestIds :
          (PassedLookup(r) /\ inflight'[r].pc = "done")
             => /\ inflight'[r].status = 201
                /\ appointments[inflight'[r].arg] = Null
                /\ appointments'[inflight'[r].arg] = BookedRow(inflight[r].body)]_vars

\* Two concurrent requests for the same doctor and slot were both answered 201
\* and both appointments are in the table as SCHEDULED.
C19_Witness ==
    \E r1, r2 \in RequestIds :
        /\ r1 # r2
        /\ Running(r1, "createAppointment", "done") /\ inflight[r1].status = 201
        /\ Running(r2, "createAppointment", "done") /\ inflight[r2].status = 201
        /\ inflight[r1].body = inflight[r2].body
        /\ inflight[r1].arg # inflight[r2].arg
        /\ \A r \in {r1, r2} :
              /\ appointments[inflight[r].arg] # Null
              /\ appointments[inflight[r].arg].status = "SCHEDULED"
              /\ appointments[inflight[r].arg].doctorId = inflight[r].body.doctorId
              /\ appointments[inflight[r].arg].appointmentDate =
                    inflight[r].body.appointmentDate

(***************************************************************************)
(* The gated AI endpoints, store call by store call: the add-on lookup of  *)
(* checkAddOn, the user lookup of the handler, the AI call and the         *)
(* usageCount update.                                                      *)
(***************************************************************************)
RequiredError(endpoint) ==
    CASE endpoint = "voiceToText" -> "Audio data is required"
      [] endpoint = "extractTextFromImage" -> "Image data is required"
      [] OTHER -> "Text input is required"

FailedError(endpoint) ==
    CASE endpoint = "voiceToText" -> "Failed to transcribe audio"
      [] endpoint = "extractTextFromImage" -> "Failed to extract text from image"
      [] OTHER -> "Failed to generate AI summary"

\* An update that writes back the usageCount the request saw at its add-on lookup, plus one.
IncrementedUsage_FromRead(request) ==
    [organizationAddOns EXCEPT ![request.organizationId]["AI Scribe"] =
        IF @ = Null THEN Null ELSE [@ EXCEPT !.usageCount = request.seenUsage + 1]]

\* updateMany({ data: { usageCount: { increment: 1 } } }): the store adds one to
\* the value the row holds when the update runs.
IncrementedUsage(request) == IncrementUsage(request.organizationId)

\* checkAddOn('AI Scribe'): prisma.organizationAddOn.findFirst
AiCheckAddOn(r, endpoint, u, data) ==
    LET req == GatedReq(u, data)
        gate == checkAddOn("AI Scribe", req.user)
        request == [op |-> endpoint, pc |-> "findUser", userId |-> u, arg |-> data,
                    organizationId |-> req.user.organizationId,
                    seenUsage |-> IF gate.next THEN UsageCount(req.user.organizationId) ELSE 0,
                    status |-> 0, error |-> ""]
    IN  /\ FreeSlot(r)
        /\ IF ~gate.next
           THEN Answer(r, request, gate.reply.status, gate.reply.error)
           ELSE inflight' = [inflight EXCEPT ![r] = request] /\ UNCHANGED res
        /\ UNCHANGED <<users, organizations, clinics, patients, appointments, ehrRecords,
                       invites, backups, now, organizationAddOns, subscriptions>>

\* prisma.user.findUnique of the handler and the test of the input that follows it
AiFindUser(r) ==
    /\ inflight[r] # Null /\ inflight[r].op \in AiEndpoints /\ inflight[r].pc = "findUser"
    /\ LET org == UserOrganization(inflight[r].userId)
       IN  IF org = NoId
           THEN Answer(r, inflight[r], 404, "Organization not found")
           ELSE IF inflight[r].arg = NoId
           THEN Answer(r, inflight[r], 400, RequiredError(inflight[r].op))
           ELSE /\ inflight' = [inflight EXCEPT ![r].organizationId = org, ![r].pc = "ai"]
                /\ UNCHANGED res
    /\ UNCHANGED <<users, organizations, clinics, patients, appointments, ehrRecords,
                   invites, backups, now, organizationAddOns, subscriptions>>

\* await speechToText / extractTextFromImage / generateAISummary: returns or throws
AiCall(r, aiReturns) ==
    /\ inflight[r] # Null /\ inflight[r].op \in AiEndpoints /\ inflight[r].pc = "ai"
    /\ IF ~aiReturns
       THEN Answer(r, inflight[r], 500, FailedError(inflight[r].op))
       ELSE Goto(r, "increment") /\ UNCHANGED res
    /\ UNCHANGED <<users, organizations, clinics, patients, appointments, ehrRecords,
                   invites, backups, now, organizationAddOns, subscriptions>>

\* prisma.organizationAddOn.updateMany and the answer
AiIncrement(r) ==
    /\ inflight[r] # Null /\ inflight[r].op \in AiEndpoints /\ inflight[r].pc = "increment"
    /\ UsageCount(inflight[r].organizationId) < MaxUsage
    /\ organizationAddOns' = IncrementedUsage(inflight[r])
    /\ Answer(r, inflight[r], 200, "")
    /\ UNCHANGED <<users, organizations, clinics, patients, appointments, ehrRecords,
                   invites, backups, now, subscriptions>>

UsageCallers == {1, 2, 4}
UsageEvents == {"subscription.activated", "subscription.cancelled"}

NextUsage ==
    \/ \E u \in AddOnCallers : SubscribeToAddons(u, <<"AI Scribe">>)
    \/ \E e \in UsageEvents : HandleRazorpayWebhook(e, [id |-> StartOfDay], "hmac")
    \/ \E r \in RequestIds, e \in AiEndpoints, u \in UsageCallers, d \in AiInputs :
          AiCheckAddOn(r, e, u, d)
    \/ \E r \in RequestIds : AiFindUser(r)
    \/ \E r \in RequestIds, aiReturns \in BOOLEAN : AiCall(r, aiReturns)
    \/ \E r \in RequestIds : AiIncrement(r)

SpecUsage == InitTenant /\ [][NextUsage]_vars

\* The gated AI calls of organization org that were answered 200.
SuccessfulAiCalls(org) ==
    {r \in RequestIds : /\ inflight[r] # Null
                        /\ inflight[r].op \in AiEndpoints
                        /\ inflight[r].pc = "done"
                        /\ inflight[r].status = 200
                        /\ inflight[r].organizationId = org}

\* C20: whatever the interleaving of the gated AI calls of an organization, its
\* AI Scribe usageCount has grown (from 0 at subscription) by exactly the number
\* of calls answered with success: no increment is lost.
C20_NoIncrementLost ==
    \A org \in OrgIds : UsageCount(org) = Cardinality(SuccessfulAiCalls(org))

\* Two calls of one organization were both answered 200 and the count is 2.
C20_Witness ==
    \E org \in OrgIds :
        /\ Cardinality(SuccessfulAiCalls(org)) = MaxRequests
        /\ UsageCount(org) = MaxRequests
        /\ \E r1, r2 \in SuccessfulAiCalls(org) : inflight[r1].op # inflight[r2].op

(***************************************************************************)
(* Rescheduling: appointments are created, then updated field by field     *)
(* (doctor only, duration only, status only, date only) and cancelled.     *)
(***************************************************************************)
RescheduleTimes == {StartOfDay + 60, StartOfDay + 75}
RescheduleDoctors == {2, 3}
RescheduleUpdates ==
    {AppointmentBody(NoId, 2, NoId, NoDate, NoDuration, NoStatus),
     AppointmentBody(NoId, 5, NoId, NoDate, NoDuration, NoStatus),
     AppointmentBody(NoId, NoId, 2, NoDate, NoDuration, NoStatus),
     AppointmentBody(NoId, NoId, NoId, NoDate, 60, NoStatus),
     AppointmentBody(NoId, NoId, NoId, NoDate, NoDuration, "SCHEDULED"),
     AppointmentBody(NoId, NoId, NoId, NoDate, NoDuration, "COMPLETED"),
     AppointmentBody(NoId, NoId, NoId, StartOfDay + 75, NoDuration, NoStatus)}

NextReschedule ==
    \/ \E d \in RescheduleDoctors, t \in RescheduleTimes :
          CreateAppointment(1, AppointmentBody(1, d, 1, t, NoDuration, NoStatus))
    \/ \E id \in AppointmentIds, body \in RescheduleUpdates : UpdateAppointment(1, id, body)
    \/ \E id \in AppointmentIds : DeleteAppointment(1, id)

SpecReschedule == InitAppointments /\ [][NextReschedule]_vars

\* C21: an updateAppointment that is answered with success leaves the
\* appointment outside the conflict window of every other SCHEDULED/CONFIRMED
\* appointment of its doctor, whichever fields the update changed.
C21_UpdateRejectsConflicts ==
    (res.op = "updateAppointment" /\ res.status = 200)
        => ConflictingAppointments(appointments[res.arg].doctorId,
                                   appointments[res.arg].appointmentDate,
                                   appointments[res.arg].duration, res.arg) = {}

\* C22: once the status of an appointment is CANCELLED or COMPLETED no
\* operation changes it again.
C22_TerminalStatuses ==
    [][\A id \in AppointmentIds :
          (appointments[id] # Null /\ appointments[id].status \in {"CANCELLED", "COMPLETED"})
             => /\ appointments'[id] # Null
                /\ appointments'[id].status = appointments[id].status]_vars

(***************************************************************************)
(* createPatient, store call by store call.                                *)
(***************************************************************************)
\* prisma.user.findUnique of the caller and the phoneRegex test that follows it
PatientFindUser(r, u, phone, clinicId) ==
    LET request == [op |-> "createPatient", pc |-> "findExisting", userId |-> u,
                    arg |-> NoId, phone |-> phone, clinicId |-> clinicId,
                    organizationId |-> UserOrganization(u), status |-> 0, error |-> ""]
    IN  /\ FreeSlot(r)
        /\ IF UserOrganization(u) = NoId
           THEN Answer(r, request, 404, "Organization not found")
           ELSE IF ~phoneRegexTest(phone)
           THEN Answer(r, request, 400, "Invalid phone number format")
           ELSE inflight' = [inflight EXCEPT ![r] = request] /\ UNCHANGED res
        /\ UNCHANGED <<users, organizations, clinics, patients, appointments, ehrRecords,
                       invites, backups, now, organizationAddOns, subscriptions>>

\* prisma.patient.findFirst({ where: { phone, clinic: { organizationId } } })
PatientFindExisting(r) ==
    /\ Running(r, "createPatient", "findExisting")
    /\ IF PatientsWithPhone(inflight[r].phone, inflight[r].organizationId) # {}
       THEN Answer(r, inflight[r], 400, "Patient with this phone number already exists")
       ELSE Goto(r, "findClinic") /\ UNCHANGED res
    /\ UNCHANGED <<users, organizations, clinics, patients, appointments, ehrRecords,
                   invites, backups, now, organizationAddOns, subscriptions>>

\* prisma.clinic.findFirst({ where: { id: clinicId, organizationId } })
PatientFindClinic(r) ==
    /\ Running(r, "createPatient", "findClinic")
    /\ IF ~ClinicInOrg(inflight[r].clinicId, inflight[r].organizationId)
       THEN Answer(r, inflight[r], 400, "Invalid clinic selected")
       ELSE Goto(r, "create") /\ UNCHANGED res
    /\ UNCHANGED <<users, organizations, clinics, patients, appointments, ehrRecords,
                   invites, backups, now, organizationAddOns, subscriptions>>

\* prisma.patient.create and the answer
PatientCreate(r) ==
    /\ Running(r, "createPatient", "create")
    /\ FreeId(patients) # NoId
    /\ patients' = [patients EXCEPT ![FreeId(patients)] =
                       [phone |-> inflight[r].phone, clinicId |-> inflight[r].clinicId]]
    /\ Answer(r, [inflight[r] EXCEPT !.arg = FreeId(patients)], 201, "")
    /\ UNCHANGED <<users, organizations, clinics, appointments, ehrRecords, invites,
                   backups, now, organizationAddOns, subscriptions>>

RegisterCallers == {1, 4}
RegisterPhones == {PhoneA, PhoneShort}
RegisterClinics == {1, 2}

NextRegister ==
    \/ \E r \in RequestIds, u \in RegisterCallers, phone \in RegisterPhones,
          c \in RegisterClinics : PatientFindUser(r, u, phone, c)
    \/ \E r \in RequestIds : PatientFindExisting(r)
    \/ \E r \in RequestIds : PatientFindClinic(r)
    \/ \E r \in RequestIds : PatientCreate(r)
    \/ \E id \in PatientIds : UpdatePatient(1, id, PhoneB, NoId)
    \/ BulkImportPatients(1, <<ImportItem(TRUE, PhoneA, 1, FALSE)>>)

SpecRegister == InitTenant /\ [][NextRegister]_vars

\* C23: in every reachable state no two distinct patients whose clinics
\* belong to the same organization hold the same phone number.
C23_PhoneUniquePerOrganization ==
    \A p, q \in PatientIds :
        (p # q /\ patients[p] # Null /\ patients[q] # Null /\ PatientOrg(p) = PatientOrg(q))
            => patients[p].phone # patients[q].phone

(***************************************************************************)
(* Reading EHR records.                                                    *)
(***************************************************************************)
\* GET /api/ehr/patient/:patientId
getPatientEHRRecords(req) ==
    LET userId == ReqUserId(req.user)
        patientId == req.params.patientId
        org == UserOrganization(userId)
    IN  IF PrologueThrows(userId)
        THEN Reply(404, "Patient not found", Null)
        ELSE IF org = NoId
        THEN Reply(404, "Organization not found", Null)
        ELSE IF ~PatientInOrg(patientId, org)
        THEN Reply(404, "Patient not found", Null)
        \* prisma.eHRRecord.findMany({ where: { patientId } })
        ELSE Reply(200, "",
                   [ehrRecords |-> {[id |-> e] @@ ehrRecords[e] :
                                       e \in {x \in EhrIds : /\ ehrRecords[x] # Null
                                                             /\ ehrRecords[x].patientId = patientId}}])

GetPatientEHRRecords(u, patientId) ==
    /\ Respond("getPatientEHRRecords", u, patientId,
               getPatientEHRRecords(HandlerReq(u, [patientId |-> patientId], Null, Null)))
    /\ UNCHANGED <<users, organizations, clinics, patients, appointments, ehrRecords,
                   invites, backups, now, organizationAddOns, subscriptions, inflight>>

EhrWriters == {2, 3, 5}
EhrReaders == {1, 2, 3, 4}

NextEhr ==
    \/ \E u \in EhrWriters, p \in PatientIds : CreateEHRRecord(u, p)
    \/ \E u \in EhrReaders, id \in EhrIds : GetEHRRecordById(u, id)
    \/ \E u \in EhrReaders, p \in PatientIds : GetPatientEHRRecords(u, p)
    \/ \E u \in {1, 4}, id \in PatientIds : UpdatePatient(u, id, PhoneB, NoId)

SpecEhr == InitAppointments /\ [][NextEhr]_vars

\* The EHR records a successful read returned.
ReturnedEhrRecords ==
    IF res.op = "getPatientEHRRecords" THEN res.body.ehrRecords ELSE {res.body}

\* C24: a caller with role DOCTOR who reads EHR records receives only records
\* whose doctorId is the caller.
C24_DoctorReadsOwnEhrRecords ==
    (/\ res.op \in {"getPatientEHRRecords", "getEHRRecordById"}
     /\ res.status = 200
     /\ users[res.caller].role = "DOCTOR")
        => \A record \in ReturnedEhrRecords : record.doctorId = res.caller

\* C25: joinOrganization with an invite's token succeeds only for a caller
\* whose email equals the invite's email, and on success the caller's
\* organizationId and role are the invite's organizationId and role.
C25_InviteBindsEmail ==
    (res.op = "joinOrganization" /\ res.status = 200)
        => /\ users[res.caller].email = invites[res.arg].email
           /\ users[res.caller].organizationId = invites[res.arg].organizationId
           /\ users[res.caller].role = invites[res.arg].role

\* C26: for every request that passes authenticateToken, the user id the
\* handler reads (req.user.userId) is defined and is the id of the user that
\* authenticateToken verified and attached to the request.
C26_HandlerUsesVerifiedUser ==
    \A token \in AuthTokens :
        LET auth == authenticateToken(token)
        IN  auth.next => /\ ReqUserId(auth.user) # NoId
                         /\ ReqUserId(auth.user) = auth.user.id

\* A step gives user u a membership it did not have.
GainsMembership(u) ==
    /\ users'[u] # Null
    /\ users'[u].organizationId # NoId
    /\ users[u] = Null \/ users[u].organizationId # users'[u].organizationId

\* C27: a user gets a non-null organizationId only by a successful
\* createOrganization (as ADMIN of the new organization) or by a successful
\* joinOrganization (with the organization and role of the invite); no other
\* operation, signup in particular, makes a user a member of an organization.
C27_MembershipOnlyByCreateOrJoin ==
    [][\A u \in UserIds :
          GainsMembership(u)
             => \/ /\ res'.op \in {"createOrganization", "POST /api/organizations"}
                   /\ res'.status = 201
                   /\ users'[u].role = "ADMIN"
                   /\ users'[u].organizationId \notin organizations
                \/ /\ res'.op = "joinOrganization"
                   /\ res'.status = 200
                   /\ users'[u].organizationId = invites[res'.arg].organizationId
                   /\ users'[u].role = invites[res'.arg].role]_vars

\* C28: in every reachable state the patient, the doctor and the clinic of
\* each appointment belong to one organization and the doctor has role DOCTOR.
C28_AppointmentWithinOneOrganization ==
    \A a \in AppointmentIds :
        appointments[a] # Null
            => /\ PatientOrg(appointments[a].patientId) = ClinicOrg(appointments[a].clinicId)
               /\ ClinicOrg(appointments[a].clinicId) # NoId
               /\ DoctorInOrg(appointments[a].doctorId, ClinicOrg(appointments[a].clinicId))

\* C29: no operation moves a patient to a clinic of another organization: a
\* patient created in organization O still belongs to a clinic of O after
\* every step.
C29_PatientStaysInOrganization ==
    [][\A p \in PatientIds :
          (patients[p] # Null /\ patients'[p] # Null)
             => ClinicOrg(patients'[p].clinicId) = ClinicOrg(patients[p].clinicId)]_vars

(***************************************************************************)
(* Email verification with re-issued tokens.                               *)
(***************************************************************************)
MaxTokens == 7
VerificationTokens == 1..MaxTokens

\* crypto.randomBytes(32).toString('hex'): a value that no user holds and that
\* is larger than every token in use.
FreshVerificationToken ==
    LET held == {users[u].emailVerificationToken : u \in {x \in UserIds : users[x] # Null}}
                   \cup {MaxUsers}
    IN  1 + CHOOSE t \in held : \A other \in held : other <= t

\* POST /api/auth/resend-verification
resendVerification(req, mailSent) ==
    LET found == UsersWithEmail(req.body.email)
        user == CHOOSE u \in found : TRUE
        fresh == FreshVerificationToken
    IN  IF found = {}
        THEN Out(400, "User not found", Null, users)
        ELSE IF users[user].isEmailVerified
        THEN Out(400, "Email is already verified", Null, users)
        ELSE IF ~mailSent
        THEN Out(400, "User not found or already verified", Null,
                 [users EXCEPT ![user].emailVerificationToken = fresh])
        \* the body stands for the mail: the token and the time it was sent
        ELSE Out(200, "", [token |-> fresh, sentAt |-> now],
                 [users EXCEPT ![user].emailVerificationToken = fresh])

ResendVerification(email, mailSent) ==
    LET out == resendVerification([body |-> [email |-> email]], mailSent)
    IN  /\ out.table # users => FreshVerificationToken \in VerificationTokens
        /\ users' = out.table
        /\ Respond("resendVerification", NoId, email, out)
        /\ UNCHANGED <<organizations, clinics, patients, appointments, ehrRecords, invites,
                       backups, now, organizationAddOns, subscriptions, inflight>>

NextVerify ==
    \/ \E e \in SignupEmails : Signup(e, NoRole, NoId, TRUE)
    \/ \E e \in SignupEmails, m \in BOOLEAN : ResendVerification(e, m)
    \/ \E t \in VerificationTokens : VerifyEmail(t)
    \/ Tick(DayMinutes, StartOfDay + MaxDays * DayMinutes)

SpecVerify == InitRoutes /\ [][NextVerify]_vars

\* C30: after resendVerification has issued a fresh token for an unverified
\* user, verifyEmail with that token, presented within 24 hours of its issue,
\* sets isEmailVerified = true, however long ago the account was created.
C30_FreshTokenVerifies ==
    (/\ res.op = "resendVerification" /\ res.status = 200
     /\ now - res.body.sentAt <= VerificationTtl)
        => LET out == verifyEmail([body |-> [token |-> res.body.token]])
           IN  /\ out.status = 200
               /\ \E u \in UsersWithEmail(res.arg) : out.table[u].isEmailVerified

====
